---- MODULE Spec2Model ----
(***************************************************************************)
(* A model of the flow-results server (praekeltfoundation/flow-results):   *)
(* the value codec of FlowResponse, the question and answer validators,    *)
(* flow-package creation, response-batch submission and the cursor         *)
(* pagination of the response listing.                                     *)
(*                                                                         *)
(* The specifications share the variables:                                 *)
(*   SpecCodec  the value codec applied to a bounded set of values         *)
(*   SpecFlow   flow-package creation (FlowViewSet.create)                 *)
(*   Spec       response submission and listing (FlowResponseViewSet)      *)
(*              over a store that already holds two flows                  *)
(*   SpecClean  the validators applied to a bounded set of questions and   *)
(*              answers                                                    *)
(*   SpecWalk   a client following the links of the response listing       *)
(*   SpecWorkers  two workers each handling a response submission          *)
(***************************************************************************)
EXTENDS Integers, Sequences, FiniteSets, TLC

VARIABLES flows, questions, responses, last, codec

vars == <<flows, questions, responses, last, codec>>

(***************************************************************************)
(* Bounds of the model.                                                    *)
(***************************************************************************)
\* longest list value given to the codec
MaxList == 2
\* most rows the response table holds
MaxResponses == 3
\* most rows of one submitted batch
MaxBatch == 2
\* most resources of one submitted package
MaxResources == 2
\* most requests of one traversal of the listing
MaxRequests == 5
\* settings.REST_FRAMEWORK["PAGE_SIZE"]: 100 in flow_results/settings.py:152.
\* The listing is parametric in it; the model scales it down so that a
\* request can ask for more than the configured default.
PAGE_SIZE == 2

(***************************************************************************)
(* Values.  A Python / JSON value is a record of one shape, so that values *)
(* of different types can be compared and collected in sets:               *)
(*   k      the runtime type: "str", "url" (flows.types.URL, a subclass of *)
(*          str), "int", "float", "list", "dict", "datetime", "date",      *)
(*          "time", "none"                                                 *)
(*   s      the characters of a str or URL                                 *)
(*   n      the number of an int; a float is held in tenths (15 is 1.5)    *)
(*   t      the fields of a date <<y, m, d>>, of a time <<h, mi, s, us>>   *)
(*          or of a datetime <<y, m, d, h, mi, s, us>>, followed for an    *)
(*          aware time or datetime by the UTC offset in seconds            *)
(*   keys, items   the keys and values of a dict; items of a list          *)
(***************************************************************************)
V(k, s, n, t, keys, items) == [k |-> k, s |-> s, n |-> n, t |-> t, keys |-> keys, items |-> items]

VStr(s) == V("str", s, 0, <<>>, <<>>, <<>>)

VInt(n) == V("int", <<>>, n, <<>>, <<>>, <<>>)

VFloat(n) == V("float", <<>>, n, <<>>, <<>>, <<>>)

VList(items) == V("list", <<>>, 0, <<>>, <<>>, items)

VDict(keys, items) == V("dict", <<>>, 0, <<>>, keys, items)

VDate(t) == V("date", <<>>, 0, t, <<>>, <<>>)

VTime(t) == V("time", <<>>, 0, t, <<>>, <<>>)

VDateTime(t) == V("datetime", <<>>, 0, t, <<>>, <<>>)

PyNone == V("none", <<>>, 0, <<>>, <<>>, <<>>)

\* URL(value): the str subclass built from the characters of value
URL(value) == V("url", value.s, 0, <<>>, <<>>, <<>>)

\* isinstance(value, str): a URL is a str too
IsStr(value) == value.k \in {"str", "url"}

\* key in d, d[key] for a dict value
HasKey(d, key) == \E i \in 1..Len(d.keys) : d.keys[i] = key

GetKey(d, key) == d.items[CHOOSE i \in 1..Len(d.keys) : d.keys[i] = key]

EmptyDict == VDict(<<>>, <<>>)

\* body(value), the value computed once: a local variable of the code
Bind(value, body(_)) == CHOOSE result \in {body(x) : x \in {value}} : TRUE

(***************************************************************************)
(* Decimal text, as Python's "%0wd" formatting and int() produce and read  *)
(* it.  Text is a sequence of one-character strings.                       *)
(***************************************************************************)
Digits == <<"0", "1", "2", "3", "4", "5", "6", "7", "8", "9">>

IsDigit(c) == \E i \in 1..10 : Digits[i] = c

DigitVal(c) == (CHOOSE i \in 1..10 : Digits[i] = c) - 1

AllDigits(s) == \A i \in 1..Len(s) : IsDigit(s[i])

RECURSIVE Pad(_, _)
Pad(n, w) == IF w = 0 THEN <<>> ELSE Pad(n \div 10, w - 1) \o <<Digits[(n % 10) + 1]>>

RECURSIVE ToInt(_)
ToInt(s) == IF s = <<>> THEN 0 ELSE ToInt(SubSeq(s, 1, Len(s) - 1)) * 10 + DigitVal(s[Len(s)])

\* s[a:b] of Python for 0 <= a <= b: characters a+1 .. b, cut at the end
Slice(s, a, b) == SubSeq(s, a + 1, IF b < Len(s) THEN b ELSE Len(s))

\* the ValueError that a parser raises
ValueError == V("ValueError", <<>>, 0, <<>>, <<>>, <<>>)

(***************************************************************************)
(* datetime.isoformat() and fromisoformat() of Python's datetime module,   *)
(* as FlowResponse._serialize and _deserialize call them.  Offsets are     *)
(* whole seconds.                                                          *)
(***************************************************************************)
IsLeap(y) == (y % 4 = 0 /\ y % 100 # 0) \/ y % 400 = 0

DaysInMonth(y, m) == IF m = 2 THEN (IF IsLeap(y) THEN 29 ELSE 28) ELSE IF m \in {4, 6, 9, 11} THEN 30 ELSE 31

ValidDate(y, m, d) == y \in 1..9999 /\ m \in 1..12 /\ d \in 1..DaysInMonth(y, m)

ValidTime(h, mi, sec, us) == h \in 0..23 /\ mi \in 0..59 /\ sec \in 0..59 /\ us \in 0..999999

\* "%04d-%02d-%02d"
FormatDate(y, m, d) == Pad(y, 4) \o <<"-">> \o Pad(m, 2) \o <<"-">> \o Pad(d, 2)

\* the UTC offset: nothing for a naive value, else "+HH:MM" or "+HH:MM:SS"
FormatOffset(tz) ==
  IF tz = <<>> THEN <<>>
  ELSE LET off == IF tz[1] < 0 THEN -tz[1] ELSE tz[1]
           sign == IF tz[1] < 0 THEN "-" ELSE "+"
       IN <<sign>> \o Pad(off \div 3600, 2) \o <<":">> \o Pad((off % 3600) \div 60, 2)
          \o (IF off % 60 # 0 THEN <<":">> \o Pad(off % 60, 2) ELSE <<>>)

\* "%02d:%02d:%02d", ".%06d" when the microsecond is not zero, the offset
FormatTime(h, mi, sec, us, tz) ==
  Pad(h, 2) \o <<":">> \o Pad(mi, 2) \o <<":">> \o Pad(sec, 2)
  \o (IF us # 0 THEN <<".">> \o Pad(us, 6) ELSE <<>>) \o FormatOffset(tz)

\* value.isoformat() of a date, a time or a datetime
isoformat(value) ==
  LET t == value.t
  IN CASE value.k = "date" -> FormatDate(t[1], t[2], t[3])
       [] value.k = "time" -> FormatTime(t[1], t[2], t[3], t[4], SubSeq(t, 5, Len(t)))
       [] value.k = "datetime" ->
            FormatDate(t[1], t[2], t[3]) \o <<"T">>
            \o FormatTime(t[4], t[5], t[6], t[7], SubSeq(t, 8, Len(t)))

\* _parse_isoformat_date: <<y, m, d>>, or <<>> for a ValueError
ParseDate(s) ==
  IF Len(s) # 10 \/ s[5] # "-" \/ s[8] # "-" THEN <<>>
  ELSE IF ~(AllDigits(Slice(s, 0, 4)) /\ AllDigits(Slice(s, 5, 7)) /\ AllDigits(Slice(s, 8, 10))) THEN <<>>
  ELSE LET y == ToInt(Slice(s, 0, 4))
           m == ToInt(Slice(s, 5, 7))
           d == ToInt(Slice(s, 8, 10))
       IN IF ValidDate(y, m, d) THEN <<y, m, d>> ELSE <<>>

\* _parse_hh_mm_ss_ff: HH[:MM[:SS[.fff[fff]]]] as <<h, mi, s, us>>, or <<>>
ParseHHMMSSFF(s) ==
  LET L == Len(s)
      num(a) == Slice(s, a, a + 2)
      ok(a) == Len(num(a)) = 2 /\ AllDigits(num(a))
      rest == Slice(s, 9, L)
  IN IF L < 2 \/ ~ok(0) THEN <<>>
     ELSE IF L = 2 THEN <<ToInt(num(0)), 0, 0, 0>>
     ELSE IF s[3] # ":" \/ L - 3 < 2 \/ ~ok(3) THEN <<>>
     ELSE IF L = 5 THEN <<ToInt(num(0)), ToInt(num(3)), 0, 0>>
     ELSE IF s[6] # ":" \/ L - 6 < 2 \/ ~ok(6) THEN <<>>
     ELSE IF L = 8 THEN <<ToInt(num(0)), ToInt(num(3)), ToInt(num(6)), 0>>
     ELSE IF s[9] # "." \/ (L - 9) \notin {3, 6} \/ ~AllDigits(rest) THEN <<>>
     ELSE <<ToInt(num(0)), ToInt(num(3)), ToInt(num(6)),
            IF L - 9 = 3 THEN ToInt(rest) * 1000 ELSE ToInt(rest)>>

\* str.find of the first "-", else of the first "+", as a 1-based position (0: none)
TzPos(s) ==
  LET at(c) == {i \in 1..Len(s) : s[i] = c}
      first(S) == CHOOSE i \in S : \A j \in S : i <= j
  IN IF at("-") # {} THEN first(at("-")) ELSE IF at("+") # {} THEN first(at("+")) ELSE 0

\* _parse_isoformat_time: <<h, mi, s, us>> and the offset, or <<>>
ParseTime(s) ==
  LET p == TzPos(s)
      tzstr == SubSeq(s, p + 1, Len(s))
  IN Bind(ParseHHMMSSFF(IF p > 0 THEN SubSeq(s, 1, p - 1) ELSE s), LAMBDA comps :
     Bind(ParseHHMMSSFF(tzstr), LAMBDA tzc :
       LET off == tzc[1] * 3600 + tzc[2] * 60 + tzc[3]
       IN IF Len(s) < 2 \/ comps = <<>> THEN <<>>
          ELSE IF ~ValidTime(comps[1], comps[2], comps[3], comps[4]) THEN <<>>
          ELSE IF p = 0 THEN comps
          ELSE IF Len(tzstr) \notin {5, 8, 15} \/ tzc = <<>> THEN <<>>
          ELSE IF off >= 86400 THEN <<>>
          ELSE comps \o <<IF s[p] = "-" THEN -off ELSE off>>))

\* date.fromisoformat, time.fromisoformat, datetime.fromisoformat of a text
date_fromisoformat(s) == Bind(ParseDate(s), LAMBDA d : IF d = <<>> THEN ValueError ELSE VDate(d))

time_fromisoformat(s) == Bind(ParseTime(s), LAMBDA t : IF t = <<>> THEN ValueError ELSE VTime(t))

datetime_fromisoformat(s) ==
  LET tstr == SubSeq(s, 12, Len(s))
  IN Bind(ParseDate(Slice(s, 0, 10)), LAMBDA d :
     Bind(IF tstr = <<>> THEN <<0, 0, 0, 0>> ELSE ParseTime(tstr), LAMBDA t :
       IF d = <<>> \/ t = <<>> THEN ValueError ELSE VDateTime(d \o t)))

(***************************************************************************)
(* The value codec of FlowResponse (flows/models.py).                      *)
(***************************************************************************)
\* FlowResponse.Type
Type_STRING == 0
Type_INTEGER == 1
Type_ARRAY_OF_STRING == 2
Type_FLOAT == 3
Type_URL == 4
Type_ARRAY_OF_FLOAT == 5
Type_DATETIME == 6
Type_DATE == 7
Type_TIME == 8
\* the None that _get_type returns when no branch matches
NoType == -1

\* FlowResponse._get_type: the first matching isinstance test wins
_get_type(value) ==
  IF value.k = "url" THEN Type_URL
  ELSE IF IsStr(value) THEN Type_STRING
  ELSE IF value.k = "int" THEN Type_INTEGER
  ELSE IF value.k = "float" THEN Type_FLOAT
  ELSE IF value.k = "datetime" THEN Type_DATETIME
  ELSE IF value.k = "date" THEN Type_DATE
  ELSE IF value.k = "time" THEN Type_TIME
  ELSE IF value.k = "list" THEN
    (IF \A i \in 1..Len(value.items) : IsStr(value.items[i]) THEN Type_ARRAY_OF_STRING
     ELSE IF \A i \in 1..Len(value.items) : value.items[i].k = "float" THEN Type_ARRAY_OF_FLOAT
     ELSE NoType)
  ELSE NoType

\* a mutant of _serialize: a time is stored as it is, like the other values
SerializeTimeRaw(value) ==
  Bind(_get_type(value), LAMBDA type_ :
    IF type_ \in {Type_DATETIME, Type_DATE} THEN <<type_, VStr(isoformat(value))>> ELSE <<type_, value>>)

\* FlowResponse._serialize: <<type, value>>, the value a date, a time or a
\* datetime formatted by isoformat()
_serialize(value) ==
  Bind(_get_type(value), LAMBDA type_ :
    IF type_ \in {Type_DATETIME, Type_DATE, Type_TIME} THEN <<type_, VStr(isoformat(value))>> ELSE <<type_, value>>)

\* FlowResponse._deserialize
_deserialize(type_, value) ==
  IF type_ = Type_URL THEN URL(value)
  ELSE IF type_ = Type_DATETIME THEN datetime_fromisoformat(value.s)
  ELSE IF type_ = Type_DATE THEN date_fromisoformat(value.s)
  ELSE IF type_ = Type_TIME THEN time_fromisoformat(value.s)
  ELSE value

(***************************************************************************)
(* SpecCodec: a FlowResponse is built with response = value (the setter    *)
(* stores _serialize(value)), then its response property is read (the      *)
(* getter returns _deserialize of what is stored).                         *)
(***************************************************************************)
\* sequences of at most n elements of S
SeqsUpTo(S, n) == UNION {[1..m -> S] : m \in 0..n}

CodecTexts == {<<>>, <<"a">>, <<"b">>, <<"h", "i">>}

CodecItems == {VStr(<<"a">>), VStr(<<"b">>), VFloat(11), VFloat(22), VInt(1)}

CodecDates == {<<2021, 2, 3>>, <<2020, 2, 29>>, <<1, 12, 31>>, <<9999, 1, 1>>}

CodecOffsets == {<<>>, <<0>>, <<7200>>, <<-19800>>, <<3723>>}

CodecTimes == {<<h, 5, sec, us>> \o tz : h \in {4, 23}, sec \in {0, 6}, us \in {0, 7, 120000}, tz \in CodecOffsets}

CodecValues ==
  {VStr(s) : s \in CodecTexts} \cup {URL(VStr(s)) : s \in CodecTexts \ {<<>>}}
  \cup {VInt(n) : n \in {-1, 0, 7}} \cup {VFloat(n) : n \in {0, 15}}
  \cup {VList(l) : l \in SeqsUpTo(CodecItems, MaxList)}
  \cup {VDate(d) : d \in CodecDates} \cup {VTime(t) : t \in CodecTimes}
  \cup {VDateTime(d \o t) : d \in {<<2021, 2, 3>>, <<1, 12, 31>>}, t \in CodecTimes}

\* no codec run: the codec variable of the other specifications
CodecIdle == [pc |-> "idle", value |-> PyNone, type_ |-> NoType, stored |-> PyNone, out |-> PyNone]

\* no request handled yet
NoRequest == [op |-> "none"]

CodecInit ==
  /\ flows = {} /\ questions = {} /\ responses = <<>> /\ last = NoRequest
  /\ \E v \in CodecValues : codec = [CodecIdle EXCEPT !.pc = "new", !.value = v]

\* response.setter: self.response_type, self.response_value = self._serialize(value)
SetResponse ==
  /\ codec.pc = "new"
  /\ codec' = [codec EXCEPT !.pc = "set", !.type_ = _serialize(codec.value)[1], !.stored = _serialize(codec.value)[2]]
  /\ UNCHANGED <<flows, questions, responses, last>>

\* response property: self._deserialize(self.response_type, self.response_value)
GetResponse ==
  /\ codec.pc = "set"
  /\ codec' = [codec EXCEPT !.pc = "got", !.out = _deserialize(codec.type_, codec.stored)]
  /\ UNCHANGED <<flows, questions, responses, last>>

CodecNext == SetResponse \/ GetResponse

SpecCodec == CodecInit /\ [][CodecNext]_vars

\* the values the codec represents: the nine types of FlowResponse.Type
Representable(v) ==
  \/ v.k \in {"str", "url", "int", "float", "datetime", "date", "time"}
  \/ v.k = "list" /\ \A i \in 1..Len(v.items) : v.items[i].k = "str"
  \/ v.k = "list" /\ \A i \in 1..Len(v.items) : v.items[i].k = "float"

\* the tag of a representable value's type; the empty list, which is both a
\* list of strings and a list of floats, counts as a list of strings
TagOf(v) ==
  CASE v.k = "str" -> Type_STRING
    [] v.k = "url" -> Type_URL
    [] v.k = "int" -> Type_INTEGER
    [] v.k = "float" -> Type_FLOAT
    [] v.k = "datetime" -> Type_DATETIME
    [] v.k = "date" -> Type_DATE
    [] v.k = "time" -> Type_TIME
    [] v.k = "list" -> IF \A i \in 1..Len(v.items) : v.items[i].k = "str" THEN Type_ARRAY_OF_STRING ELSE Type_ARRAY_OF_FLOAT

\* the text "2021-02-03T04:05:06+00:00" of the specification's example
ExampleText == <<"2", "0", "2", "1", "-", "0", "2", "-", "0", "3", "T", "0", "4", ":", "0", "5", ":", "0", "6", "+", "0", "0", ":", "0", "0">>

Err(field, msg) == [field |-> field, msg |-> msg]

\* Python's == on values: a URL equals the str of the same characters, an
\* int equals the float of the same number, lists are equal item by item
RECURSIVE PyEq(_, _)
PyEq(a, b) ==
  IF IsStr(a) /\ IsStr(b) THEN a.s = b.s
  ELSE IF a.k = "int" /\ b.k = "float" THEN a.n * 10 = b.n
  ELSE IF a.k = "float" /\ b.k = "int" THEN a.n = b.n * 10
  ELSE IF a.k = "list" /\ b.k = "list" THEN
    Len(a.items) = Len(b.items) /\ \A i \in 1..Len(a.items) : PyEq(a.items[i], b.items[i])
  ELSE a = b

\* a mutant of InList: an item counts only when it is the very same value
InListIdentical(x, l) == \E i \in 1..Len(l.items) : l.items[i] = x

\* x in l, for a list value l
InList(x, l) == \E i \in 1..Len(l.items) : PyEq(l.items[i], x)

\* FlowQuestion.Type without OPEN, sorted
ValidTypes == <<"audio", "date", "datetime", "geo_point", "image", "numeric", "select_many", "select_one", "text", "time", "video">>

\* a mutant of validate_type_options: the length of range is not looked at
ValidateTypeOptionsAnyLength(type_, type_options) ==
  IF type_ = "select_one" THEN
    (IF ~HasKey(type_options, "choices") THEN <<Err("type_options", "choices is required for select_one type")>>
     ELSE IF GetKey(type_options, "choices").k # "list" THEN <<Err("type_options", "choices must be an array")>>
     ELSE <<>>)
  ELSE IF type_ = "select_many" THEN
    (IF ~HasKey(type_options, "choices") THEN <<Err("type_options", "choices is required for select_many type")>>
     ELSE IF GetKey(type_options, "choices").k # "list" THEN <<Err("type_options", "choices must be an array")>>
     ELSE <<>>)
  ELSE IF type_ = "numeric" /\ HasKey(type_options, "range") THEN
    (LET range == GetKey(type_options, "range")
     IN IF range.k # "list" THEN <<Err("type_options", "range must be an array")>>
        ELSE IF ~(\A i \in 1..Len(range.items) : range.items[i].k = "int") THEN <<Err("type_options", "range can only contain integers")>>
        ELSE <<>>)
  ELSE <<>>

\* FlowQuestion.validate_type_options: the errors it appends to errors["type_options"]
validate_type_options(type_, type_options) ==
  IF type_ = "select_one" THEN
    (IF ~HasKey(type_options, "choices") THEN <<Err("type_options", "choices is required for select_one type")>>
     ELSE IF GetKey(type_options, "choices").k # "list" THEN <<Err("type_options", "choices must be an array")>>
     ELSE <<>>)
  ELSE IF type_ = "select_many" THEN
    (IF ~HasKey(type_options, "choices") THEN <<Err("type_options", "choices is required for select_many type")>>
     ELSE IF GetKey(type_options, "choices").k # "list" THEN <<Err("type_options", "choices must be an array")>>
     ELSE <<>>)
  ELSE IF type_ = "numeric" /\ HasKey(type_options, "range") THEN
    (LET range == GetKey(type_options, "range")
     IN IF range.k # "list" THEN <<Err("type_options", "range must be an array")>>
        ELSE IF ~(\A i \in 1..Len(range.items) : range.items[i].k = "int") THEN <<Err("type_options", "range can only contain integers")>>
        ELSE IF Len(range.items) # 2 THEN <<Err("type_options", "range must contain exactly 2 items")>>
        ELSE <<>>)
  ELSE <<>>

\* a mutant of _validate_choice_order: choice_order may hold choices only
ValidateChoiceOrderExact(question, metadata) ==
  IF ~HasKey(question.type_options, "choices") THEN [raised |-> "KeyError", errors |-> <<>>]
  ELSE LET choices == GetKey(question.type_options, "choices")
           choice_order == GetKey(metadata, "choice_order")
       IN IF choice_order.k # "list" THEN [raised |-> "", errors |-> <<Err("response_metadata", "choice_order must be an array")>>]
          ELSE IF choices.k # "list" THEN [raised |-> "TypeError", errors |-> <<>>]
          ELSE IF ~(\A i \in 1..Len(choices.items) : InList(choices.items[i], choice_order))
                  \/ ~(\A i \in 1..Len(choice_order.items) : InList(choice_order.items[i], choices))
            THEN [raised |-> "", errors |-> <<Err("response_metadata", "choice_order contains choices not in choices")>>]
          ELSE [raised |-> "", errors |-> <<>>]

\* FlowResponse._validate_choice_order: the choices are those of the
\* answer's own question (self.question.type_options), a KeyError when it
\* has none
_validate_choice_order(question, metadata) ==
  IF ~HasKey(question.type_options, "choices") THEN [raised |-> "KeyError", errors |-> <<>>]
  ELSE LET choices == GetKey(question.type_options, "choices")
           choice_order == GetKey(metadata, "choice_order")
       IN IF choice_order.k # "list" THEN [raised |-> "", errors |-> <<Err("response_metadata", "choice_order must be an array")>>]
          ELSE IF choices.k # "list" THEN [raised |-> "TypeError", errors |-> <<>>]
          ELSE IF ~(\A i \in 1..Len(choices.items) : InList(choices.items[i], choice_order))
            THEN [raised |-> "", errors |-> <<Err("response_metadata", "choice_order contains choices not in choices")>>]
          ELSE [raised |-> "", errors |-> <<>>]

\* str(str), the text that URL(str) in _validate_media wraps
ClassStrText == <<"<class 'str'>">>

IsNumber(v) == v.k \in {"int", "float"}

\* a mutant of _validate_media: the items of dimensions are looked at only
\* when its length is 2
ValidateMediaLengthFirst(response, metadata) ==
  LET coerced == IF response.k # "url" /\ IsStr(response) THEN URL(VStr(ClassStrText)) ELSE response
      dimensions == GetKey(metadata, "dimensions")
  IN [response |-> coerced,
      errors |->
        (IF coerced.k # "url" THEN <<Err("response", "must be a URL")>> ELSE <<>>)
        \o (IF HasKey(metadata, "format") /\ ~IsStr(GetKey(metadata, "format"))
            THEN <<Err("response_metadata", "format must be a string")>> ELSE <<>>)
        \o (IF ~HasKey(metadata, "dimensions") THEN <<>>
            ELSE IF dimensions.k # "list" THEN <<Err("response_metadata", "dimensions must be an array")>>
            ELSE IF Len(dimensions.items) # 2 THEN <<Err("response_metadata", "dimensions must have a length of 2")>>
            ELSE IF ~(\A i \in 1..Len(dimensions.items) : dimensions.items[i].k = "int")
              THEN <<Err("response_metadata", "dimensions items must be integers")>>
            ELSE <<>>)
        \o (IF HasKey(metadata, "file_size_mb") /\ ~IsNumber(GetKey(metadata, "file_size_mb"))
            THEN <<Err("response_metadata", "file_size_mb must be integer or float")>> ELSE <<>>)
        \o (IF HasKey(metadata, "duration_s") /\ ~IsNumber(GetKey(metadata, "duration_s"))
            THEN <<Err("response_metadata", "duration_s must be integer or float")>> ELSE <<>>)
        \o (IF HasKey(metadata, "language") /\ ~IsStr(GetKey(metadata, "language"))
            THEN <<Err("response_metadata", "language must be a string")>> ELSE <<>>)]

\* FlowResponse._validate_media: the response after the coercion, and the errors
_validate_media(response, metadata) ==
  LET coerced == IF response.k # "url" /\ IsStr(response) THEN URL(VStr(ClassStrText)) ELSE response
      dimensions == GetKey(metadata, "dimensions")
  IN [response |-> coerced,
      errors |->
        (IF coerced.k # "url" THEN <<Err("response", "must be a URL")>> ELSE <<>>)
        \o (IF HasKey(metadata, "format") /\ ~IsStr(GetKey(metadata, "format"))
            THEN <<Err("response_metadata", "format must be a string")>> ELSE <<>>)
        \o (IF ~HasKey(metadata, "dimensions") THEN <<>>
            ELSE IF dimensions.k # "list" THEN <<Err("response_metadata", "dimensions must be an array")>>
            ELSE (IF Len(dimensions.items) # 2 THEN <<Err("response_metadata", "dimensions must have a length of 2")>> ELSE <<>>)
                 \o (IF ~(\A i \in 1..Len(dimensions.items) : dimensions.items[i].k = "int")
                     THEN <<Err("response_metadata", "dimensions items must be integers")>> ELSE <<>>))
        \o (IF HasKey(metadata, "file_size_mb") /\ ~IsNumber(GetKey(metadata, "file_size_mb"))
            THEN <<Err("response_metadata", "file_size_mb must be integer or float")>> ELSE <<>>)
        \o (IF HasKey(metadata, "duration_s") /\ ~IsNumber(GetKey(metadata, "duration_s"))
            THEN <<Err("response_metadata", "duration_s must be integer or float")>> ELSE <<>>)
        \o (IF HasKey(metadata, "language") /\ ~IsStr(GetKey(metadata, "language"))
            THEN <<Err("response_metadata", "language must be a string")>> ELSE <<>>)]

\* the result of clean: what it raised besides ValidationError ("" when
\* nothing), the errors of its ValidationError, the response it leaves
CleanResult(raised, errors, response) == [raised |-> raised, errors |-> errors, response |-> response]

\* a temporal answer: a str is parsed, kept as it is on a ValueError
CleanTemporal(response, kind, parsed, msg) ==
  LET r == IF IsStr(response) /\ parsed # ValueError THEN parsed ELSE response
  IN CleanResult("", IF r.k # kind THEN <<Err("response", msg)>> ELSE <<>>, r)

\* FlowResponse.clean from the type dispatch on (models.py:299-371), for the
\* resolved type_ and type_options
CleanTyped(question, type_, type_options, response, metadata) ==
  LET choices == GetKey(type_options, "choices")
      order == IF HasKey(metadata, "choice_order") THEN _validate_choice_order(question, metadata)
               ELSE [raised |-> "", errors |-> <<>>]
  IN IF type_ \in {"select_one", "select_many"} /\ ~HasKey(type_options, "choices") THEN CleanResult("KeyError", <<>>, response)
     ELSE IF type_ \in {"select_one", "select_many"} /\ choices.k # "list" THEN CleanResult("TypeError", <<>>, response)
     ELSE IF type_ = "select_one" THEN
       CleanResult(order.raised,
                   (IF ~InList(response, choices) THEN <<Err("response", "is not a valid choice")>> ELSE <<>>) \o order.errors,
                   response)
     ELSE IF type_ = "select_many" THEN
       CleanResult(order.raised,
                   (IF response.k # "list" THEN <<Err("response", "must be an array")>>
                    ELSE IF ~(\A i \in 1..Len(response.items) : InList(response.items[i], choices))
                      THEN <<Err("response", "contains choices not in choices")>>
                    ELSE <<>>) \o order.errors,
                   response)
     ELSE IF type_ = "numeric" THEN
       CleanResult("", IF ~IsNumber(response) THEN <<Err("response", "must be float or integer")>> ELSE <<>>, response)
     ELSE IF type_ = "text" THEN
       CleanResult("",
                   (IF ~IsStr(response) THEN <<Err("response", "must be a string")>> ELSE <<>>)
                   \o (IF HasKey(metadata, "language") /\ ~IsStr(GetKey(metadata, "language"))
                       THEN <<Err("response_metadata", "language must be a string")>> ELSE <<>>),
                   response)
     ELSE IF type_ \in {"image", "video", "audio"} THEN
       Bind(_validate_media(response, metadata), LAMBDA media : CleanResult("", media.errors, media.response))
     ELSE IF type_ = "geo_point" THEN
       CleanResult("",
                   IF response.k # "list" THEN <<Err("response", "must be an array")>>
                   ELSE (IF ~(\A i \in 1..Len(response.items) : response.items[i].k = "float")
                         THEN <<Err("response", "array may only contain floats")>> ELSE <<>>)
                        \o (IF Len(response.items) < 2 \/ Len(response.items) > 4
                            THEN <<Err("response", "number of array elements must be between 2 and 4 inclusive")>> ELSE <<>>),
                   response)
     ELSE IF type_ = "datetime" THEN
       CleanTemporal(response, "datetime", IF IsStr(response) THEN datetime_fromisoformat(response.s) ELSE ValueError,
                     "must be an RFC 3339 date-time")
     ELSE IF type_ = "date" THEN
       CleanTemporal(response, "date", IF IsStr(response) THEN date_fromisoformat(response.s) ELSE ValueError,
                     "must be an RFC 3339 date")
     ELSE IF type_ = "time" THEN
       CleanTemporal(response, "time", IF IsStr(response) THEN time_fromisoformat(response.s) ELSE ValueError,
                     "must be an RFC 3339 time")
     ELSE CleanResult("", <<>>, response)

\* the "type_options." prefix that clean gives the question validator's messages
Prefixed(errors) == [i \in 1..Len(errors) |-> Err("response_metadata", "type_options." \o errors[i].msg)]

\* the first part of FlowResponse.clean (models.py:267-297): the type and the
\* type_options that the dispatch works on, and the errors of an open
\* question's metadata.  valid_types is a set: the membership test of line
\* 278 hashes metadata["type"], a TypeError for a list or a dict.
OpenType(question, metadata) ==
  IF question.type # "open"
  THEN [raised |-> "", type_ |-> question.type, type_options |-> question.type_options, errors |-> <<>>]
  ELSE IF HasKey(metadata, "type") /\ GetKey(metadata, "type").k \in {"list", "dict"}
  THEN [raised |-> "TypeError", type_ |-> "open", type_options |-> EmptyDict, errors |-> <<>>]
  ELSE
    LET typeKnown == HasKey(metadata, "type") /\ \E i \in 1..Len(ValidTypes) : PyEq(GetKey(metadata, "type"), VStr(<<ValidTypes[i]>>))
        type_ == IF typeKnown THEN GetKey(metadata, "type").s[1] ELSE "open"
        optsKnown == HasKey(metadata, "type_options") /\ GetKey(metadata, "type_options").k = "dict"
        type_options == IF optsKnown THEN GetKey(metadata, "type_options") ELSE EmptyDict
        errors ==
          (IF ~HasKey(metadata, "type") THEN <<Err("response_metadata", "type is required")>>
           ELSE IF ~typeKnown THEN <<Err("response_metadata", "type must be one of the valid types")>>
           ELSE <<>>)
          \o (IF ~HasKey(metadata, "type_options") THEN <<Err("response_metadata", "type_options is required")>>
              ELSE IF ~optsKnown THEN <<Err("response_metadata", "type_options must be an object")>>
              ELSE <<>>)
    IN [raised |-> "", type_ |-> type_, type_options |-> type_options,
        errors |-> errors \o Prefixed(validate_type_options(type_, type_options))]

\* FlowResponse.clean; metadata is an object.  The errors of an open
\* question's metadata are raised before the dispatch on the type.
clean(question, response, metadata) ==
  Bind(OpenType(question, metadata), LAMBDA open :
    IF open.raised # "" THEN CleanResult(open.raised, <<>>, response)
    ELSE IF open.errors # <<>> THEN CleanResult("", open.errors, response)
    ELSE CleanTyped(question, open.type_, open.type_options, response, metadata))

(***************************************************************************)
(* Timestamps.  Django reads a timestamp text with parse_datetime, which   *)
(* tries datetime.fromisoformat first; a naive datetime is taken as UTC    *)
(* (settings.TIME_ZONE).  Two datetimes are ordered as instants.           *)
(***************************************************************************)
\* days from 1970-01-01 to the date
DaysFromCivil(y, m, d) ==
  LET yy == IF m <= 2 THEN y - 1 ELSE y
      era == yy \div 400
      yoe == yy - era * 400
      doy == (153 * (IF m > 2 THEN m - 3 ELSE m + 9) + 2) \div 5 + d - 1
      doe == yoe * 365 + yoe \div 4 - yoe \div 100 + doy
  IN era * 146097 + doe - 719468

\* the instant of a datetime value: <<seconds since 2000-01-01T00:00:00Z, microseconds>>
Instant(dt) ==
  LET t == dt.t
      off == IF Len(t) > 7 THEN t[8] ELSE 0
  IN <<(DaysFromCivil(t[1], t[2], t[3]) - 10957) * 86400 + t[4] * 3600 + t[5] * 60 + t[6] - off, t[7]>>

\* a < b for two instants
Earlier(a, b) == a[1] < b[1] \/ (a[1] = b[1] /\ a[2] < b[2])

\* django.utils.dateparse.parse_datetime of a text: the datetime, or
\* ValueError when the text is no datetime (None or a ValueError in Django:
\* every caller here treats the two alike)
parse_datetime(text) == datetime_fromisoformat(text)

\* DateTimeField.to_python of a text: a datetime, else a date (midnight), else invalid
TimestampToPython(text) ==
  Bind(parse_datetime(text), LAMBDA parsed :
    IF parsed # ValueError THEN parsed
    ELSE Bind(date_fromisoformat(text), LAMBDA day :
           IF day # ValueError THEN VDateTime(day.t \o <<0, 0, 0, 0>>) ELSE ValueError))

(***************************************************************************)
(* Text of an int, and int() of a text.                                    *)
(***************************************************************************)
RECURSIVE NatText(_)
NatText(n) == IF n < 10 THEN <<Digits[n + 1]>> ELSE NatText(n \div 10) \o <<Digits[(n % 10) + 1]>>

\* str(n)
IntText(n) == IF n < 0 THEN <<"-">> \o NatText(-n) ELSE NatText(n)

\* int(text): <<n>>, or <<>> for a ValueError
ParseInt(text) ==
  LET signed == text # <<>> /\ text[1] \in {"-", "+"}
      digits == IF signed THEN Tail(text) ELSE text
  IN IF digits = <<>> \/ ~AllDigits(digits) THEN <<>>
     ELSE IF signed /\ text[1] = "-" THEN <<-ToInt(digits)>> ELSE <<ToInt(digits)>>

(***************************************************************************)
(* The answer that FlowResponseViewSet.create builds from one row of the   *)
(* request, and its full_clean(exclude=["question", "flow"],               *)
(* validate_unique=False).                                                 *)
(***************************************************************************)
\* a row of the request: the 7 values of one answer
Row(timestamp, row_id, contact_id, session_id, question_id, response, response_metadata) ==
  [timestamp |-> timestamp, row_id |-> row_id, contact_id |-> contact_id, session_id |-> session_id,
   question_id |-> question_id, response |-> response, response_metadata |-> response_metadata]

\* row_id_value is a text column (migration 0006; the listing turns it back
\* into an int by row_id_type): the text of a str or of an int
RowIdText(value) == IF IsStr(value) THEN value.s ELSE IF value.k = "int" THEN IntText(value.n) ELSE <<"repr">>

\* a mutant of IdTypeErrors: the limit of the validator is Type.FLOAT
IdTypeErrorsUpToFloat(field, type_) ==
  IF type_ = NoType THEN <<Err(field, "This field cannot be null.")>>
  ELSE IF type_ > Type_FLOAT THEN <<Err(field, "must be string or integer")>>
  ELSE <<>>

\* the validator of row_id_type, contact_id_type and session_id_type:
\* MaxValueValidator(Type.INTEGER, "must be string or integer"), after the null check
IdTypeErrors(field, type_) ==
  IF type_ = NoType THEN <<Err(field, "This field cannot be null.")>>
  ELSE IF type_ > Type_INTEGER THEN <<Err(field, "must be string or integer")>>
  ELSE <<>>

\* the null and blank checks of a value column that is not blank=True
IdValueErrors(field, value) ==
  IF value = PyNone THEN <<Err(field, "This field cannot be null.")>>
  ELSE IF value \in {VStr(<<>>), VList(<<>>), EmptyDict} THEN <<Err(field, "This field cannot be blank.")>>
  ELSE <<>>

\* a mutant of clean_fields: response_type may be null
CleanFieldsNullableResponseType(row) ==
  (IF ~IsStr(row.timestamp) \/ TimestampToPython(row.timestamp.s) = ValueError
   THEN <<Err("timestamp", "invalid")>> ELSE <<>>)
  \o IdTypeErrors("row_id_type", _serialize(row.row_id)[1])
  \o IdValueErrors("row_id_value", row.row_id)
  \o IdTypeErrors("contact_id_type", _serialize(row.contact_id)[1])
  \o IdValueErrors("contact_id_value", row.contact_id)
  \o IdTypeErrors("session_id_type", _serialize(row.session_id)[1])
  \o IdValueErrors("session_id_value", row.session_id)

\* Model.clean_fields over the fields that are not excluded, in field order
clean_fields(row) ==
  (IF ~IsStr(row.timestamp) \/ TimestampToPython(row.timestamp.s) = ValueError
   THEN <<Err("timestamp", "invalid")>> ELSE <<>>)
  \o IdTypeErrors("row_id_type", _serialize(row.row_id)[1])
  \o IdValueErrors("row_id_value", row.row_id)
  \o IdTypeErrors("contact_id_type", _serialize(row.contact_id)[1])
  \o IdValueErrors("contact_id_value", row.contact_id)
  \o IdTypeErrors("session_id_type", _serialize(row.session_id)[1])
  \o IdValueErrors("session_id_value", row.session_id)
  \o (IF _serialize(row.response)[1] = NoType THEN <<Err("response_type", "This field cannot be null.")>> ELSE <<>>)

\* full_clean: clean_fields, then clean even when a field failed, the errors
\* of both together; the answer as the two leave it
full_clean(flow, question, row) ==
  Bind(clean(question, row.response, row.response_metadata), LAMBDA c :
  Bind(clean_fields(row) \o c.errors, LAMBDA errors :
     [raised |-> c.raised,
      errors |-> errors,
      answer |-> IF c.raised # "" \/ errors # <<>> THEN <<>>
                 ELSE <<[flow |-> flow,
                         question |-> question.id,
                         timestamp |-> TimestampToPython(row.timestamp.s),
                         row_id_type |-> _serialize(row.row_id)[1],
                         row_id_value |-> RowIdText(row.row_id),
                         contact_id_type |-> _serialize(row.contact_id)[1],
                         contact_id_value |-> _serialize(row.contact_id)[2],
                         session_id_type |-> _serialize(row.session_id)[1],
                         session_id_value |-> _serialize(row.session_id)[2],
                         response_type |-> _serialize(c.response)[1],
                         response_value |-> _serialize(c.response)[2],
                         response_metadata |-> row.response_metadata]>>]))

(***************************************************************************)
(* FlowResponseViewSet.create (flows/views.py:242-307).                    *)
(***************************************************************************)
\* a mutant of FlowExists: a flow is found under every id
FlowExistsAlways(stored_flows, fid) == TRUE

\* the flow with this id, as Flow.objects.get(id=...) finds it: DoesNotExist
\* for an id no flow has, ValidationError for a text that is no UUID
FlowExists(stored_flows, fid) == \E f \in stored_flows : f.id = fid

\* lines 254-289 for one row: the question is looked up among the flow's
\* questions (a KeyError is the "not found" error of the row), the answer is
\* built and validated
CleanRow(fid, qs, row) ==
  LET found == {q \in qs : IsStr(row.question_id) /\ row.question_id.s = <<q.id>>}
  IN IF row.question_id.k \in {"list", "dict"} THEN [raised |-> "TypeError", errors |-> <<>>, answer |-> <<>>]
     ELSE IF found = {} THEN [raised |-> "", errors |-> <<Err("question_id", "Question with ID not found")>>, answer |-> <<>>]
     ELSE full_clean(fid, CHOOSE q \in found : TRUE, row)

\* a mutant of CleanRows: the loop ends at the first row with an error
RECURSIVE CleanRowsUntilError(_, _, _)
CleanRowsUntilError(fid, qs, batch) ==
  IF batch = <<>> THEN <<>>
  ELSE Bind(CleanRow(fid, qs, Head(batch)), LAMBDA c :
         IF c.errors # <<>>
         THEN <<c>> \o [i \in 1..(Len(batch) - 1) |-> [raised |-> "", errors |-> <<>>, answer |-> <<>>]]
         ELSE <<c>> \o CleanRowsUntilError(fid, qs, Tail(batch)))

\* the loop of lines 254-289 over the batch: what each row came to
RECURSIVE CleanRows(_, _, _)
CleanRows(fid, qs, batch) ==
  IF batch = <<>> THEN <<>> ELSE <<CleanRow(fid, qs, Head(batch))>> \o CleanRows(fid, qs, Tail(batch))

\* a mutant of HasErrors: only the first row's errors reject the batch
HasErrorsFirstOnly(cleaned) == cleaned # <<>> /\ cleaned[1].errors # <<>>

\* line 291, "if errors": some row has an entry in the error map
HasErrors(cleaned) == \E i \in 1..Len(cleaned) : cleaned[i].errors # <<>>

\* the answers that passed, in the order of the batch
RECURSIVE Answers(_)
Answers(cleaned) == IF cleaned = <<>> THEN <<>> ELSE cleaned[1].answer \o Answers(Tail(cleaned))

\* unique_together = [["question_id", "row_id_value"]]: the key of a row
UniqueKey(a) == <<a.flow, a.question, a.row_id_value>>

\* whether inserting the answers breaks the unique constraint
Collides(stored, answers) ==
  \/ \E i, j \in 1..Len(answers) : i < j /\ UniqueKey(answers[i]) = UniqueKey(answers[j])
  \/ \E i \in 1..Len(answers), j \in 1..Len(stored) : UniqueKey(answers[i]) = UniqueKey(stored[j].row)

\* the rows given the next ids of the table, in order
WithIds(stored, answers) == [i \in 1..Len(answers) |-> [id |-> Len(stored) + i, row |-> answers[i]]]

\* a mutant of bulk_create: the constraint is not enforced
BulkCreateUnchecked(stored, answers) == [raised |-> "", rows |-> stored \o WithIds(stored, answers)]

\* a mutant of bulk_create: the rows before the first collision stay inserted
BulkCreatePartial(stored, answers) ==
  IF Collides(stored, answers)
  THEN [raised |-> "IntegrityError",
        rows |-> stored \o WithIds(stored, SubSeq(answers, 1,
                   (CHOOSE n \in 0..Len(answers) : ~Collides(stored, SubSeq(answers, 1, n))
                                                   /\ Collides(stored, SubSeq(answers, 1, n + 1)))))]
  ELSE [raised |-> "", rows |-> stored \o WithIds(stored, answers)]

\* FlowResponse.objects.bulk_create(answers): one atomic insert, an
\* IntegrityError and no row when the unique constraint is broken
bulk_create(stored, answers) ==
  IF Collides(stored, answers) THEN [raised |-> "IntegrityError", rows |-> stored]
  ELSE [raised |-> "", rows |-> stored \o WithIds(stored, answers)]

\* the handler: the response and the rows of the table after it
create(stored_flows, stored_questions, stored, fid, batch) ==
  LET qs == {q \in stored_questions : q.flow = fid}
      Response(status, raised, errs, detail, rows) ==
        [op |-> "create", flow |-> fid, batch |-> batch, status |-> status, raised |-> raised,
         errors |-> errs, detail |-> detail, before |-> stored, rows |-> rows]
  IN IF ~FlowExists(stored_flows, fid) THEN Response(404, "", <<>>, "", stored)
     ELSE
       Bind(CleanRows(fid, qs, batch), LAMBDA cleaned :
         LET crashed == {i \in 1..Len(batch) : cleaned[i].raised # ""}
         IN IF crashed # {}
            THEN Response(500, cleaned[CHOOSE i \in crashed : \A j \in crashed : i <= j].raised, <<>>, "", stored)
            ELSE IF HasErrors(cleaned)
              THEN Response(400, "", [i \in 1..Len(batch) |-> cleaned[i].errors], "", stored)
            ELSE
              Bind(bulk_create(stored, Answers(cleaned)), LAMBDA inserted :
                IF inserted.raised # ""
                THEN Response(400, "", <<>>, "row_id is not unique for flow question", inserted.rows)
                ELSE Response(204, "", <<>>, "", inserted.rows)))

(***************************************************************************)
(* FlowResponseViewSet.list (flows/views.py:309-425).  The query           *)
(* parameters of a request are a record: each parameter is <<>> when it is *)
(* absent and <<text>> when it is present.                                 *)
(***************************************************************************)
Params(start, end_, size, after, before) ==
  [start |-> start, end_ |-> end_, size |-> size, after |-> after, before |-> before]

\* s[::-1]
RECURSIVE Reversed(_)
Reversed(s) == IF s = <<>> THEN <<>> ELSE Reversed(Tail(s)) \o <<Head(s)>>

\* min(a, b)
Min(a, b) == IF a <= b THEN a ELSE b

\* a filter parameter as lines 317-331 read it: <<datetime>>, or <<>> when
\* it is absent or parse_datetime gives None or a ValueError
FilterValue(param) ==
  IF param = <<>> THEN <<>>
  ELSE Bind(parse_datetime(param[1]), LAMBDA parsed : IF parsed = ValueError THEN <<>> ELSE <<parsed>>)

\* a mutant of Filtered: a row whose timestamp is the start value is kept
FilteredFromStart(stored, fid, params) ==
  Bind(FilterValue(params.start), LAMBDA start_filter :
  Bind(FilterValue(params.end_), LAMBDA end_filter :
    LET Keep(a) == /\ a.row.flow = fid
                   /\ start_filter # <<>> => ~Earlier(Instant(a.row.timestamp), Instant(start_filter[1]))
                   /\ end_filter # <<>> => ~Earlier(Instant(end_filter[1]), Instant(a.row.timestamp))
    IN SelectSeq(stored, Keep)))

\* lines 315-331: the flow's rows by id, timestamp > start and timestamp <= end
Filtered(stored, fid, params) ==
  Bind(FilterValue(params.start), LAMBDA start_filter :
  Bind(FilterValue(params.end_), LAMBDA end_filter :
    LET Keep(a) == /\ a.row.flow = fid
                   /\ start_filter # <<>> => Earlier(Instant(start_filter[1]), Instant(a.row.timestamp))
                   /\ end_filter # <<>> => ~Earlier(Instant(end_filter[1]), Instant(a.row.timestamp))
    IN SelectSeq(stored, Keep)))

\* a mutant of PageSize: the requested size is not capped
PageSizeUncapped(params) ==
  IF params.size = <<>> THEN PAGE_SIZE
  ELSE Bind(ParseInt(params.size[1]), LAMBDA size : IF size = <<>> THEN PAGE_SIZE ELSE size[1])

\* lines 333-337: min(PAGE_SIZE, int(page[size])), PAGE_SIZE on a KeyError or ValueError
PageSize(params) ==
  IF params.size = <<>> THEN PAGE_SIZE
  ELSE Bind(ParseInt(params.size[1]), LAMBDA size : IF size = <<>> THEN PAGE_SIZE ELSE Min(PAGE_SIZE, size[1]))

\* a mutant of CursorRows: the cursor is looked up among the rows of every flow
CursorRowsAnyFlow(stored, fid, cursor) ==
  IF cursor = <<>> THEN <<>>
  ELSE LET Match(a) == a.row.row_id_value = cursor[1]
       IN SelectSeq(stored, Match)

\* FlowResponse.objects.get(row_id_value=cursor, flow=flow): the rows it matches
CursorRows(stored, fid, cursor) ==
  IF cursor = <<>> THEN <<>>
  ELSE LET Match(a) == a.row.flow = fid /\ a.row.row_id_value = cursor[1]
       IN SelectSeq(stored, Match)

\* line 345: answers.filter(id__gt=after_answer.id)
AfterCursor(answers, after_answer) ==
  LET Keep(a) == a.id > after_answer.id IN SelectSeq(answers, Keep)

\* line 354: answers.filter(id__lt=before_answer.id)
BeforeCursor(answers, before_answer) ==
  LET Keep(a) == a.id < before_answer.id IN SelectSeq(answers, Keep)

\* a mutant of Fetch: only page_size rows are fetched
FetchExact(answers, page_size) == SubSeq(answers, 1, Min(Len(answers), page_size))

\* line 361: answers[: page_size + 1]
Fetch(answers, page_size) == SubSeq(answers, 1, Min(Len(answers), page_size + 1))

\* a mutant of NextLink: the before cursor is left in the link
NextLinkKeepsBefore(params, answers) ==
  <<[params EXCEPT !.after = <<answers[Len(answers)].row.row_id_value>>]>>

\* lines 383-386: replace_query_param(uri, "page[afterCursor]", answers[-1][1])
\* and remove_query_param(.., "page[beforeCursor]"); every other parameter stays
NextLink(params, answers) ==
  <<[params EXCEPT !.after = <<answers[Len(answers)].row.row_id_value>>, !.before = <<>>]>>

\* lines 391-394: the same with the first row and the two cursors exchanged
PreviousLink(params, answers) ==
  <<[params EXCEPT !.before = <<answers[1].row.row_id_value>>, !.after = <<>>]>>

\* lines 404-412: the 7 values of a row in the response, row_id an int again
\* when row_id_type is INTEGER
Output(a) ==
  <<a.row.timestamp,
    IF a.row.row_id_type = Type_INTEGER THEN VInt(ParseInt(a.row.row_id_value)[1]) ELSE VStr(a.row.row_id_value),
    a.row.contact_id_value, a.row.session_id_value, VStr(<<a.row.question>>),
    a.row.response_value, a.row.response_metadata>>

\* the handler: the response to a request
list(stored_flows, stored, fid, params) ==
  LET Response(status, raised, page, next, previous) ==
        [op |-> "list", flow |-> fid, params |-> params, status |-> status, raised |-> raised,
         page |-> page, data |-> [i \in 1..Len(page) |-> Output(page[i])],
         next |-> next, previous |-> previous]
  IN IF ~FlowExists(stored_flows, fid) THEN Response(404, "", <<>>, <<>>, <<>>)
     ELSE
       Bind(PageSize(params), LAMBDA page_size :
       Bind(CursorRows(stored, fid, params.after), LAMBDA after_rows :
       Bind(CursorRows(stored, fid, params.before), LAMBDA before_rows :
         IF Len(after_rows) > 1 \/ Len(before_rows) > 1 THEN Response(500, "MultipleObjectsReturned", <<>>, <<>>, <<>>)
         ELSE IF page_size < 0 THEN Response(500, "ValueError", <<>>, <<>>, <<>>)
         ELSE
           Bind(Filtered(stored, fid, params), LAMBDA filtered :
           Bind(IF after_rows # <<>> THEN AfterCursor(filtered, after_rows[1]) ELSE filtered, LAMBDA afterwards :
           Bind(IF before_rows # <<>> THEN Reversed(BeforeCursor(afterwards, before_rows[1])) ELSE afterwards, LAMBDA ordered :
           Bind(Fetch(ordered, page_size), LAMBDA fetched :
           Bind(IF Len(fetched) > page_size THEN SubSeq(fetched, 1, page_size) ELSE fetched, LAMBDA trimmed :
           Bind(IF before_rows # <<>> THEN Reversed(trimmed) ELSE trimmed, LAMBDA answers :
             LET more == Len(fetched) > page_size
                 reversed == before_rows # <<>>
                 has_next == reversed \/ (more /\ ~reversed)
                 has_previous == after_rows # <<>> \/ (more /\ reversed)
             IN IF (has_next \/ has_previous) /\ answers = <<>> THEN Response(500, "IndexError", <<>>, <<>>, <<>>)
                ELSE Response(200, "", answers,
                              IF has_next THEN NextLink(params, answers) ELSE <<>>,
                              IF has_previous THEN PreviousLink(params, answers) ELSE <<>>))))))))))

(***************************************************************************)
(* The specification of the response endpoints: two flows with their       *)
(* questions are stored, clients submit batches of answers and list them.  *)
(* A request is handled in one step and leaves its response in last; the   *)
(* next request comes after the response has been taken.                   *)
(***************************************************************************)
\* flow f1 has a select_one and a numeric question, flow f2 has a text
\* question and a select_many question with the choices [1, "a"]
FixtureFlows == {[id |-> "f1"], [id |-> "f2"]}

FixtureQuestions ==
  {[flow |-> "f1", id |-> "q1", type |-> "select_one",
    type_options |-> VDict(<<"choices">>, <<VList(<<VStr(<<"a">>), VStr(<<"b">>)>>)>>)],
   [flow |-> "f1", id |-> "q2", type |-> "numeric", type_options |-> EmptyDict],
   [flow |-> "f2", id |-> "q3", type |-> "text", type_options |-> EmptyDict],
   [flow |-> "f2", id |-> "q4", type |-> "select_many",
    type_options |-> VDict(<<"choices">>, <<VList(<<VInt(1), VStr(<<"a">>)>>)>>)]}

\* "2021-02-03T04:05:01+00:00", one second later, and the first instant
\* again as a text with another offset
T1 == <<"2", "0", "2", "1", "-", "0", "2", "-", "0", "3", "T", "0", "4", ":", "0", "5", ":", "0", "1", "+", "0", "0", ":", "0", "0">>
T2 == <<"2", "0", "2", "1", "-", "0", "2", "-", "0", "3", "T", "0", "4", ":", "0", "5", ":", "0", "2", "+", "0", "0", ":", "0", "0">>
T1Plus2 == <<"2", "0", "2", "1", "-", "0", "2", "-", "0", "3", "T", "0", "6", ":", "0", "5", ":", "0", "1", "+", "0", "2", ":", "0", "0">>

\* the rows a client sends that pass validation for flow f1
ValidRows ==
  {Row(VStr(r[1]), r[2], VInt(1), VStr(<<"s">>), VStr(<<"q1">>), VStr(<<"a">>), EmptyDict) :
     r \in {<<T1, VInt(0)>>, <<T2, VStr(<<"a", "1">>)>>, <<T1, VStr(<<"a", "2">>)>>, <<T2, VStr(<<"a", "2">>)>>}}
  \cup {Row(VStr(T1), VStr(<<"a", "1">>), VInt(1), VStr(<<"s">>), VStr(<<"q2">>), VInt(5), EmptyDict)}

\* rows that do not: an answer outside the choices, a row_id that is a list,
\* a question of another flow, a question id that is no text at all
InvalidRows ==
  {Row(VStr(T1), VStr(<<"a", "1">>), VInt(1), VStr(<<"s">>), VStr(<<"q1">>), VStr(<<"c">>), EmptyDict),
   Row(VStr(T1), VList(<<VStr(<<"1">>)>>), VInt(1), VStr(<<"s">>), VStr(<<"q1">>), VStr(<<"a">>), EmptyDict),
   Row(VStr(T2), VInt(0), VInt(1), VStr(<<"s">>), VStr(<<"q3">>), VStr(<<"a">>), EmptyDict),
   Row(VStr(T1), VInt(0), VInt(1), VStr(<<"s">>), VList(<<>>), VStr(<<"a">>), EmptyDict)}

Batches == SeqsUpTo(ValidRows \cup InvalidRows, MaxBatch)

\* the submissions: every batch to f1; to f2 a row for q3 and rows whose
\* response has no type tag (a list of an integer and a string, which are
\* choices of q4; null and an object); and some to an id that no stored
\* flow has ("nope") and to one that is no UUID ("invalid")
CreateRequests ==
  {<<"f1", b>> : b \in Batches}
  \cup {<<"f2", b>> : b \in SeqsUpTo({r \in InvalidRows : r.question_id = VStr(<<"q3">>)}, 1)}
  \cup {<<"f2", <<r>>>> : r \in
       {Row(VStr(T1), VStr(<<"a", "1">>), VInt(1), VStr(<<"s">>), VStr(<<"q4">>), VList(<<VInt(1), VStr(<<"a">>)>>), EmptyDict),
       Row(VStr(T1), VStr(<<"a", "1">>), VInt(1), VStr(<<"s">>), VStr(<<"q4">>), VList(<<VInt(1)>>), EmptyDict),
       Row(VStr(T1), VStr(<<"a", "1">>), VInt(1), VStr(<<"s">>), VStr(<<"q3">>), PyNone, EmptyDict),
       Row(VStr(T1), VStr(<<"a", "1">>), VInt(1), VStr(<<"s">>), VStr(<<"q3">>), EmptyDict, EmptyDict)}}
  \cup {<<fid, b>> : fid \in {"nope", "invalid"}, b \in SeqsUpTo({r \in ValidRows : r.row_id = VInt(0)}, 1)}

\* a query parameter that is absent, and one that is present with a text
Absent == <<>>

Present(text) == <<text>>

\* the cursors of a request, <<after, before>>: none, one of the two, both
CursorPairs ==
  {<<Absent, Absent>>}
  \cup {<<Present(c), Absent>> : c \in {<<"0">>, <<"a", "1">>, <<"a", "2">>, <<"z">>}}
  \cup {<<Absent, Present(c)>> : c \in {<<"0">>, <<"a", "1">>, <<"a", "2">>, <<"z">>}}
  \cup {<<Present(<<"0">>), Present(<<"a", "2">>)>>, <<Present(<<"a", "1">>), Present(<<"a", "2">>)>>,
        <<Present(<<"a", "2">>), Present(<<"0">>)>>, <<Present(<<"z">>), Present(<<"a", "1">>)>>,
        <<Present(<<"a", "1">>), Present(<<"z">>)>>}

Sizes == {Absent, Present(<<"x">>), Present(<<"-", "1">>), Present(<<"0">>), Present(<<"1">>), Present(<<"5">>)}

\* pairs of a start and an end filter
Filters ==
  {<<Absent, Absent>>, <<Present(T1Plus2), Absent>>, <<Present(<<"b", "a", "d">>), Present(T1)>>,
   <<Present(T1Plus2), Present(T2)>>}

ListRequests ==
  {<<"f1", Params(f[1], f[2], size, c[1], c[2])>> : f \in Filters, size \in Sizes, c \in CursorPairs}
  \cup {<<fid, Params(Absent, Absent, Absent, Absent, Absent)>> : fid \in {"f2", "nope", "invalid"}}

Init ==
  /\ flows = FixtureFlows
  /\ questions = FixtureQuestions
  /\ responses = <<>>
  /\ last = NoRequest
  /\ codec = CodecIdle

\* POST /flow-results/packages/<fid>/responses/
ResponseCreate ==
  /\ last = NoRequest
  /\ \E req \in CreateRequests :
       /\ Len(responses) + Len(req[2]) <= MaxResponses
       /\ \E response \in {create(flows, questions, responses, req[1], req[2])} :
            last' = response /\ responses' = response.rows
  /\ UNCHANGED <<flows, questions, codec>>

\* a mutant of ResponseList: the rows of the page are taken off the table
ResponseListConsuming ==
  /\ last = NoRequest
  /\ \E req \in ListRequests :
       \E response \in {list(flows, responses, req[1], req[2])} :
         /\ last' = response
         /\ responses' = SelectSeq(responses, LAMBDA a : \A i \in 1..Len(response.page) : response.page[i] # a)
  /\ UNCHANGED <<flows, questions, codec>>

\* GET /flow-results/packages/<fid>/responses/
ResponseList ==
  /\ last = NoRequest
  /\ \E req \in ListRequests : last' = list(flows, responses, req[1], req[2])
  /\ UNCHANGED <<flows, questions, responses, codec>>

\* the same GET once more, before any other request: the client holds the
\* first response and gets the second
ResponseListAgain ==
  /\ last.op = "list"
  /\ last' = [op |-> "again", first |-> last, second |-> list(flows, responses, last.flow, last.params)]
  /\ UNCHANGED <<flows, questions, responses, codec>>

\* the response has gone to the client
Reply ==
  /\ last # NoRequest
  /\ last' = NoRequest
  /\ UNCHANGED <<flows, questions, responses, codec>>

Next == ResponseCreate \/ ResponseList \/ ResponseListAgain \/ Reply

Spec == Init /\ [][Next]_vars

(***************************************************************************)
(* Properties of the response endpoints.                                   *)
(***************************************************************************)
\* the row fails validation for the flow: an invalid answer, an invalid
\* identifier or a question id the flow does not have
RowFails(fid, row) == CleanRow(fid, {q \in questions : q.flow = fid}, row).errors # <<>>

\* the row passes validation for the flow
RowPasses(fid, row) ==
  LET c == CleanRow(fid, {q \in questions : q.flow = fid}, row) IN c.errors = <<>> /\ c.raised = ""

\* C2: a submitted batch with at least one row that fails validation leaves
\* the stored responses exactly as they were before the request, and the
\* request is not answered as a success, even when other rows are valid.
C2_AllOrNothing ==
  (/\ last.op = "create"
   /\ FlowExists(flows, last.flow)
   /\ \E i \in 1..Len(last.batch) : RowFails(last.flow, last.batch[i]))
  => responses = last.before /\ last.status # 204

\* C2 witness: a batch of a valid and an invalid row was rejected with
\* per-row errors while responses were already stored
C2_Witness ==
  /\ last.op = "create" /\ last.status = 400
  /\ Len(last.batch) = 2
  /\ RowPasses(last.flow, last.batch[1]) /\ RowFails(last.flow, last.batch[2])
  /\ last.errors[1] = <<>> /\ last.errors[2] # <<>>
  /\ last.before # <<>> /\ responses = last.before

\* C3: no two stored responses have the same question and the same row_id.
C3_UniqueRowPerQuestion ==
  \A i, j \in 1..Len(responses) :
    i # j => <<responses[i].row.flow, responses[i].row.question, responses[i].row.row_id_value>>
             # <<responses[j].row.flow, responses[j].row.question, responses[j].row.row_id_value>>

\* C3 witness: a colliding batch has just been refused, and the store holds
\* one row_id under two questions
C3_Witness ==
  /\ last.op = "create" /\ last.detail = "row_id is not unique for flow question"
  /\ \E i, j \in 1..Len(responses) :
       /\ responses[i].row.row_id_value = responses[j].row.row_id_value
       /\ responses[i].row.question # responses[j].row.question

\* two rows of the batch have the same question and row_id, or a row has
\* those of a stored response
BatchCollides(stored, fid, batch) ==
  \/ \E i, j \in 1..Len(batch) :
       i < j /\ batch[i].question_id = batch[j].question_id /\ RowIdText(batch[i].row_id) = RowIdText(batch[j].row_id)
  \/ \E i \in 1..Len(batch), j \in 1..Len(stored) :
       /\ stored[j].row.flow = fid
       /\ batch[i].question_id = VStr(<<stored[j].row.question>>)
       /\ RowIdText(batch[i].row_id) = stored[j].row.row_id_value

\* C4: when every row of the batch passes validation but the batch breaks
\* the uniqueness of (question, row_id), the request fails with the single
\* error "row_id is not unique for flow question", without per-row errors,
\* and no row of the batch is stored.
C4_UniquenessAbortsBatch ==
  (/\ last.op = "create"
   /\ FlowExists(flows, last.flow)
   /\ \A i \in 1..Len(last.batch) : RowPasses(last.flow, last.batch[i])
   /\ BatchCollides(last.before, last.flow, last.batch))
  => /\ last.status = 400
     /\ last.detail = "row_id is not unique for flow question"
     /\ last.errors = <<>>
     /\ responses = last.before

\* C4 witness: the first row of the refused batch collides with nothing, the
\* second with a stored response
C4_Witness ==
  /\ last.op = "create" /\ last.status = 400 /\ last.detail = "row_id is not unique for flow question"
  /\ Len(last.batch) = 2
  /\ ~BatchCollides(last.before, last.flow, <<last.batch[1]>>)
  /\ BatchCollides(last.before, last.flow, <<last.batch[2]>>)
  /\ responses = last.before

(***************************************************************************)
(* Properties of the listing.  The rows a request is about are computed    *)
(* here from the stored responses, apart from the handler.                 *)
(***************************************************************************)
\* the stored responses of the flow have pairwise distinct row_ids
DistinctRowIds(fid) ==
  \A i, j \in 1..Len(responses) :
    (i # j /\ responses[i].row.flow = fid /\ responses[j].row.flow = fid)
      => responses[i].row.row_id_value # responses[j].row.row_id_value

\* the stored responses of the flow that the cursor names
Named(fid, cursor) ==
  {a \in {responses[i] : i \in 1..Len(responses)} : cursor # Absent /\ a.row.flow = fid /\ a.row.row_id_value = cursor[1]}

\* the cursor names exactly one stored response of the flow
Resolved(fid, cursor) == Cardinality(Named(fid, cursor)) = 1

\* the sequence number of the response a resolved cursor names
SeqNo(fid, cursor) == (CHOOSE a \in Named(fid, cursor) : TRUE).id

\* the flow's responses that satisfy the request's timestamp filters, in sequence order
Matching(fid, params) == Filtered(responses, fid, params)

\* the matching responses with a sequence number above lo and below hi
Between(fid, params, lo, hi) ==
  LET Keep(a) == lo < a.id /\ a.id < hi IN SelectSeq(Matching(fid, params), Keep)

\* a sequence number above every stored one
Top == Len(responses) + 1

\* the last n elements of a sequence
LastN(seq, n) == SubSeq(seq, Len(seq) - n + 1, Len(seq))

\* int(page[size]) of the request: <<n>>, or <<>> when the parameter is
\* absent or no integer
Requested(params) == IF params.size = Absent THEN <<>> ELSE ParseInt(params.size[1])

\* the effective page size: min(configured default, requested), the default
\* when no size is requested
EffectiveSize(params) ==
  IF Requested(params) = <<>> THEN PAGE_SIZE ELSE Min(PAGE_SIZE, Requested(params)[1])

\* C6: with pairwise distinct row_ids in the flow, a request with
\* page[afterCursor] = r, r the row_id of a stored response with sequence
\* number s, and a page size k of at least 1 returns exactly the first
\* min(k, n) matching responses with a sequence number above s, ascending,
\* and a previous link that is not null (n the number of such responses).
C6_ForwardPage ==
  (/\ last.op = "list"
   /\ FlowExists(flows, last.flow)
   /\ DistinctRowIds(last.flow)
   /\ last.params.before = Absent
   /\ Resolved(last.flow, last.params.after)
   /\ EffectiveSize(last.params) >= 1)
  => LET rows == Between(last.flow, last.params, SeqNo(last.flow, last.params.after), Top)
     IN /\ last.status = 200
        /\ last.page = SubSeq(rows, 1, Min(EffectiveSize(last.params), Len(rows)))
        /\ last.previous # <<>>

\* C7: with pairwise distinct row_ids in the flow, a request with
\* page[beforeCursor] = r, r the row_id of a stored response with sequence
\* number s, and a page size k of at least 1 returns exactly the min(k, n)
\* matching responses with the largest sequence numbers below s, ascending,
\* and a next link that is not null.
C7_BackwardPage ==
  (/\ last.op = "list"
   /\ FlowExists(flows, last.flow)
   /\ DistinctRowIds(last.flow)
   /\ last.params.after = Absent
   /\ Resolved(last.flow, last.params.before)
   /\ EffectiveSize(last.params) >= 1)
  => LET rows == Between(last.flow, last.params, 0, SeqNo(last.flow, last.params.before))
     IN /\ last.status = 200
        /\ last.page = LastN(rows, Min(EffectiveSize(last.params), Len(rows)))
        /\ last.next # <<>>

\* C8: in every list response, a next link that is not null carries
\* page[afterCursor] = the row_id of the last row of the page and no
\* page[beforeCursor]; a previous link that is not null carries
\* page[beforeCursor] = the row_id of the first row and no
\* page[afterCursor]; the filters and the page size are those of the request.
C8_Links ==
  (last.op = "list" /\ last.status = 200) =>
    /\ last.next # <<>> =>
         /\ last.page # <<>>
         /\ last.next[1].after = Present(last.page[Len(last.page)].row.row_id_value)
         /\ last.next[1].before = Absent
         /\ last.next[1].start = last.params.start
         /\ last.next[1].end_ = last.params.end_
         /\ last.next[1].size = last.params.size
    /\ last.previous # <<>> =>
         /\ last.page # <<>>
         /\ last.previous[1].before = Present(last.page[1].row.row_id_value)
         /\ last.previous[1].after = Absent
         /\ last.previous[1].start = last.params.start
         /\ last.previous[1].end_ = last.params.end_
         /\ last.previous[1].size = last.params.size

\* C8 witness: a response with both links to a request that had both
\* cursors, a page size and a filter
C8_Witness ==
  /\ last.op = "list" /\ last.status = 200
  /\ last.next # <<>> /\ last.previous # <<>>
  /\ last.params.after # Absent /\ last.params.before # Absent
  /\ last.params.size # Absent /\ last.params.end_ # Absent
  /\ last.next[1].after # last.params.after

\* the start position of a request: the sequence number of the response its
\* after cursor names, 0 when the cursor is absent or names none
StartPosition(fid, params) == IF Resolved(fid, params.after) THEN SeqNo(fid, params.after) ELSE 0

C10_EffectivePageSize ==
  (last.op = "list" /\ last.status = 200) =>
    IF Requested(last.params) # <<>>
    THEN Len(last.page) <= Min(PAGE_SIZE, Requested(last.params)[1])
    ELSE /\ Len(last.page) <= PAGE_SIZE
         /\ (last.params.after = Absent /\ last.params.before = Absent) =>
              Len(last.page) = Min(PAGE_SIZE, Len(Matching(last.flow, last.params)))

\* C10 witness: a size above PAGE_SIZE was requested, more than PAGE_SIZE
\* rows match, and PAGE_SIZE rows came back
C10_Witness ==
  /\ last.op = "list" /\ last.status = 200
  /\ Requested(last.params) # <<>> /\ Requested(last.params)[1] > PAGE_SIZE
  /\ Len(Matching(last.flow, last.params)) > PAGE_SIZE
  /\ Len(last.page) = PAGE_SIZE

\* two responses of the listing agree in their outcome, rows and links
SameAnswer(a, b) ==
  /\ a.status = b.status /\ a.raised = b.raised
  /\ a.page = b.page /\ a.data = b.data
  /\ a.next = b.next /\ a.previous = b.previous

\* the cursor is given and names no stored response of the flow
Unknown(fid, cursor) == cursor # Absent /\ Named(fid, cursor) = {}

\* C11: a cursor that names no stored response of the addressed flow (a
\* row_id that only another flow has included) is ignored: the request is
\* answered exactly as the same request without that cursor parameter is,
\* with the same outcome (a success whenever that one is), the same rows,
\* the same next link and the same previous link.
C11_UnknownCursorIgnored ==
  (last.op = "list" /\ FlowExists(flows, last.flow)) =>
    /\ Unknown(last.flow, last.params.after) =>
         SameAnswer(last, list(flows, responses, last.flow, [last.params EXCEPT !.after = Absent]))
    /\ Unknown(last.flow, last.params.before) =>
         SameAnswer(last, list(flows, responses, last.flow, [last.params EXCEPT !.before = Absent]))

\* C11 witness: the after cursor names a row_id that only the other flow
\* has stored, and the request returned the first page with a next link
C11_Witness ==
  /\ last.op = "list" /\ last.status = 200 /\ last.flow = "f1"
  /\ Unknown(last.flow, last.params.after)
  /\ \E i \in 1..Len(responses) :
       responses[i].row.flow = "f2" /\ Present(responses[i].row.row_id_value) = last.params.after
  /\ last.page # <<>> /\ last.page[1].id = Len(responses) - 1
  /\ last.next # <<>> /\ last.previous = <<>>

Parseable(param) == param # Absent /\ parse_datetime(param[1]) # ValueError

\* the instant a parseable filter parameter names
FilterInstant(param) == Instant(parse_datetime(param[1]))

\* the response lies in the window of the request: after the start when the
\* start parses, not after the end when the end parses
InWindow(a, params) ==
  /\ Parseable(params.start) => Earlier(FilterInstant(params.start), Instant(a.row.timestamp))
  /\ Parseable(params.end_) => ~Earlier(FilterInstant(params.end_), Instant(a.row.timestamp))

\* the stored responses of the flow in the window, in sequence order
Windowed(fid, params) ==
  LET Keep(a) == a.row.flow = fid /\ InWindow(a, params) IN SelectSeq(responses, Keep)

\* C12: every row of a list response has start < timestamp <= end for each
\* of the two filters that parses; a filter that is missing or does not
\* parse restricts nothing and is no error, whatever the other filter is: a
\* request without cursors and with a page size of at least 1 succeeds and
\* returns the first rows, up to the page size, of the flow's responses in
\* the window of the filters that parse.
C12_TimestampWindow ==
  (last.op = "list" /\ FlowExists(flows, last.flow)) =>
    /\ last.status = 200 =>
         \A i \in 1..Len(last.page) : last.page[i].row.flow = last.flow /\ InWindow(last.page[i], last.params)
    /\ (last.params.after = Absent /\ last.params.before = Absent /\ EffectiveSize(last.params) >= 1) =>
         /\ last.status = 200
         /\ last.page = SubSeq(Windowed(last.flow, last.params), 1,
                               Min(EffectiveSize(last.params), Len(Windowed(last.flow, last.params))))

\* C12 witness: both filters parse; a stored response with the timestamp of
\* the start is left out, one with the timestamp of the end is returned
C12_Witness ==
  /\ last.op = "list" /\ last.status = 200
  /\ Parseable(last.params.start) /\ Parseable(last.params.end_)
  /\ \E i \in 1..Len(last.page) : Instant(last.page[i].row.timestamp) = FilterInstant(last.params.end_)
  /\ \E j \in 1..Len(responses) :
       /\ responses[j].row.flow = last.flow
       /\ Instant(responses[j].row.timestamp) = FilterInstant(last.params.start)
       /\ \A i \in 1..Len(last.page) : last.page[i] # responses[j]

(***************************************************************************)
(* FlowViewSet.create (flows/views.py:42-147): a package of resources,     *)
(* each a flow with its questions, stored in one transaction.              *)
(***************************************************************************)
\* the characters the validator of Flow.name allows: ^[a-z0-9-\._]*$
NameChars ==
  {"a", "b", "c", "d", "e", "f", "g", "h", "i", "j", "k", "l", "m", "n", "o", "p", "q", "r", "s", "t", "u",
   "v", "w", "x", "y", "z", "0", "1", "2", "3", "4", "5", "6", "7", "8", "9", "-", ".", "_"}

\* Flow.Version: the one choice of Flow.version
V1_0_0_RC1 == "1.0.0-rc1"

\* the ids uuid4() hands out, in the order it does: the first one not in use
Uuids == <<"g1", "g2", "g3", "g4", "g5", "g6", "g7", "g8">>

uuid4(used) == Uuids[CHOOSE i \in 1..Len(Uuids) : Uuids[i] \notin used /\ \A j \in 1..(i - 1) : Uuids[j] \in used]

\* Flow.full_clean: the validators of name, version and language, and the
\* uniqueness of id among the stored flows
FlowErrors(stored_flows, id, name, version, language) ==
  (IF \E f \in stored_flows : f.id = id THEN <<Err("id", "Flow with this Id already exists.")>> ELSE <<>>)
  \o (IF \E i \in 1..Len(name) : name[i] \notin NameChars
      THEN <<Err("name", "can only contain lowercase, alphanumeric characters and '-', '_', '.'")>> ELSE <<>>)
  \o (IF version # V1_0_0_RC1 THEN <<Err("version", "is not a valid choice")>> ELSE <<>>)
  \o (IF language # <<>> /\ Len(language) < 3 THEN <<Err("language", "Ensure this value has at least 3 characters")>> ELSE <<>>)

\* lines 61-67: the errors but those of language, which go under the
\* resource; version is reported as flow-results-specification
RenamedErrors(errors) ==
  LET NotLanguage(e) == e.field # "language"
      kept == SelectSeq(errors, NotLanguage)
  IN [n \in 1..Len(kept) |->
        IF kept[n].field = "version" THEN Err("flow-results-specification", kept[n].msg) ELSE kept[n]]

\* the messages about the resource's language
LanguageErrors(errors) ==
  LET IsLanguage(e) == e.field = "language"
      kept == SelectSeq(errors, IsLanguage)
  IN [n \in 1..Len(kept) |-> kept[n].msg]

\* FlowQuestion.full_clean: the choices of type, then clean
QuestionErrors(question) ==
  (IF \A i \in 1..Len(ValidTypes) : ValidTypes[i] # question.type /\ question.type # "open"
   THEN <<Err("type", "is not a valid choice")>> ELSE <<>>)
  \o validate_type_options(question.type, question.type_options)

\* lines 71-85: the entries of question_errors for a resource, one per
\* question whose full_clean fails
ResourceQuestionErrors(resource) ==
  LET Failing(question) == QuestionErrors(question) # <<>>
      failing == SelectSeq(resource.questions, Failing)
  IN [n \in 1..Len(failing) |-> [id |-> failing[n].id, errors |-> QuestionErrors(failing[n])]]

\* the response of the handler with the tables before and after it, each
\* <<flows, questions>>; resource is the index of the resource the errors
\* are reported under, -1 when under none
FlowResponseOf(package, status, raised, attributes, resource, language, question_errors, before, after) ==
  [op |-> "flow_create", package |-> package, status |-> status, raised |-> raised,
   attributes |-> attributes, resource |-> resource, language |-> language, question_errors |-> question_errors,
   before |-> before, flows |-> after[1], questions |-> after[2]]

\* the resources from the i-th on, inside the transaction: fs and qs are the
\* tables as the transaction sees them, flows0 and questions0 the tables it
\* rolls back to when an exception leaves the handler
RECURSIVE CreateFrom(_, _, _, _, _, _, _)
CreateFrom(package, data_id, i, fs, qs, flows0, questions0) ==
  IF i > Len(package.resources)
  THEN IF package.resources = <<>>
       THEN FlowResponseOf(package, 500, "UnboundLocalError", <<>>, -1, <<>>, <<>>, <<flows0, questions0>>, <<flows0, questions0>>)
       ELSE FlowResponseOf(package, 201, "", <<>>, -1, <<>>, <<>>, <<flows0, questions0>>, <<fs, qs>>)
  ELSE LET resource == package.resources[i]
           id == IF data_id = <<>> THEN uuid4({f.id : f \in fs}) ELSE data_id[1]
           errors == FlowErrors(fs, id, package.name, package.version, resource.language)
           question_errors == ResourceQuestionErrors(resource)
       IN IF errors # <<>>
          THEN FlowResponseOf(package, 400, "", RenamedErrors(errors),
                              IF LanguageErrors(errors) # <<>> THEN i - 1 ELSE -1, LanguageErrors(errors), <<>>,
                              <<flows0, questions0>>, <<flows0, questions0>>)
          ELSE IF question_errors # <<>>
          THEN FlowResponseOf(package, 400, "", <<>>, i - 1, <<>>, question_errors,
                              <<flows0, questions0>>, <<flows0, questions0>>)
          ELSE CreateFrom(package, data_id, i + 1, fs \cup {[id |-> id]},
                          qs \cup {[flow |-> id, id |-> resource.questions[n].id, type |-> resource.questions[n].type,
                                    type_options |-> resource.questions[n].type_options] : n \in 1..Len(resource.questions)},
                          flows0, questions0)

\* the id of the serializer's data: the default uuid4() when the package
\* has none, <<>> when it is null
DataId(stored_flows, package) ==
  IF package.id = "absent" THEN <<uuid4({f.id : f \in stored_flows})>>
  ELSE IF package.id = "null" THEN <<>>
  ELSE <<package.id>>

\* the handler, @atomic
flow_create(stored_flows, stored_questions, package) ==
  CreateFrom(package, DataId(stored_flows, package), 1, stored_flows, stored_questions, stored_flows, stored_questions)

(***************************************************************************)
(* The specification of the package endpoint: clients submit packages to   *)
(* an empty store.                                                         *)
(***************************************************************************)
\* a question of a package
Question(id, type, type_options) == [id |-> id, type |-> type, type_options |-> type_options]

GoodChoices(id) == Question(id, "select_one", VDict(<<"choices">>, <<VList(<<VStr(<<"a">>)>>)>>))

BadChoices(id) == Question(id, "select_one", VDict(<<"choices">>, <<VStr(<<"i", "n", "v", "a", "l", "i", "d">>)>>))

BadRange(id) == Question(id, "numeric", VDict(<<"range">>, <<VList(<<VInt(1)>>)>>))

\* the question dicts of a resource, in their order
QuestionSets ==
  {<<>>, <<GoodChoices("qa")>>, <<BadChoices("qa")>>, <<GoodChoices("qa"), BadChoices("qb")>>,
   <<BadChoices("qa"), BadRange("qb")>>, <<GoodChoices("qa"), GoodChoices("qb")>>}

Resource(language, qs) == [language |-> language, questions |-> qs]

Package(id, name, version, resources) == [id |-> id, name |-> name, version |-> version, resources |-> resources]

\* packages whose flow fields are valid, with every id choice and every
\* combination of resources, and packages with an invalid name, version or
\* language around a failing question
Packages ==
  {Package(id, <<"o", "k">>, V1_0_0_RC1, rs) :
     id \in {"absent", "null", "u1"}, rs \in SeqsUpTo({Resource(<<"e", "n", "g">>, qs) : qs \in QuestionSets}, MaxResources)}
  \cup {Package("null", <<"N", "o">>, V1_0_0_RC1, <<Resource(<<"e", "n", "g">>, <<BadChoices("qa")>>)>>),
        Package("null", <<"o", "k">>, "other-version", <<Resource(<<"e", "n">>, <<GoodChoices("qa")>>)>>),
        Package("null", <<"o", "k">>, V1_0_0_RC1, <<Resource(<<"e", "n">>, <<BadChoices("qa")>>)>>)}

FlowInit ==
  /\ flows = {}
  /\ questions = {}
  /\ responses = <<>>
  /\ last = NoRequest
  /\ codec = CodecIdle

\* POST /flow-results/packages/
FlowCreate ==
  /\ last = NoRequest
  /\ \E package \in Packages :
       /\ Cardinality(flows) + Len(package.resources) <= MaxResources
       /\ last' = flow_create(flows, questions, package)
       /\ flows' = last'.flows
       /\ questions' = last'.questions
  /\ UNCHANGED <<responses, codec>>

FlowNext == FlowCreate \/ Reply

SpecFlow == FlowInit /\ [][FlowNext]_vars

\* the question fails the Question Type Validator
QuestionFails(question) == validate_type_options(question.type, question.type_options) # <<>>

\* C5: if any question in any resource of the package fails the Question
\* Type Validator, the request adds no flow and no question, and the error
\* it returns has an entry for every failing question of the package.
C5_AtomicAllErrors ==
  (/\ last.op = "flow_create"
   /\ \E i \in 1..Len(last.package.resources) :
        \E n \in 1..Len(last.package.resources[i].questions) : QuestionFails(last.package.resources[i].questions[n]))
  => /\ flows = last.before[1]
     /\ questions = last.before[2]
     /\ last.status = 400
     /\ \A i \in 1..Len(last.package.resources) :
          \A n \in 1..Len(last.package.resources[i].questions) :
            QuestionFails(last.package.resources[i].questions[n]) =>
              /\ last.resource = i - 1
              /\ \E e \in 1..Len(last.question_errors) :
                   last.question_errors[e].id = last.package.resources[i].questions[n].id

\* C5 witness: a package of two resources, each with a failing question,
\* was refused and nothing was added, and the error names the questions of
\* the first resource alone
C5_Witness ==
  /\ last.op = "flow_create" /\ last.status = 400
  /\ last.package.id = "null"
  /\ Len(last.package.resources) = 2
  /\ \A i \in 1..2 : \E n \in 1..Len(last.package.resources[i].questions) :
       QuestionFails(last.package.resources[i].questions[n])
  /\ flows = last.before[1] /\ questions = last.before[2]
  /\ last.resource = 0 /\ last.question_errors # <<>>

(***************************************************************************)
(* SpecClean: the validators applied to a bounded set of inputs.  An       *)
(* answer is a FlowResponse built for a question and validated by          *)
(* full_clean; a question declaration is a type with its type_options,     *)
(* validated by FlowQuestion.clean.                                        *)
(***************************************************************************)
\* a question of flow "f" with the given type and type_options
Declared(type, type_options) == [flow |-> "f", id |-> "q", type |-> type, type_options |-> type_options]

\* {key: value}, and a dict with one more key
Dict1(key, value) == VDict(<<key>>, <<value>>)

\* {**d, key: value}
With(d, key, value) == VDict(d.keys \o <<key>>, d.items \o <<value>>)

ChoicesAB == VList(<<VStr(<<"a">>), VStr(<<"b">>)>>)

Choices1A == VList(<<VInt(1), VStr(<<"a">>)>>)

\* "2021-02-03", "2021-02-29", "04:05"
DateText == <<"2", "0", "2", "1", "-", "0", "2", "-", "0", "3">>
NoDateText == <<"2", "0", "2", "1", "-", "0", "2", "-", "2", "9">>
TimeText == <<"0", "4", ":", "0", "5">>

\* the declarations that pass FlowQuestion.clean: <<type, type_options>>
Declarations ==
  {<<"select_one", Dict1("choices", ChoicesAB)>>, <<"select_one", Dict1("choices", Choices1A)>>,
   <<"select_many", Dict1("choices", ChoicesAB)>>,
   <<"numeric", EmptyDict>>, <<"numeric", Dict1("range", VList(<<VInt(1), VInt(5)>>))>>}
  \cup {<<type, EmptyDict>> : type \in {"text", "image", "video", "audio", "geo_point", "datetime", "date", "time"}}

\* an open question has no constraint on its own type_options
OpenQuestions == {Declared("open", EmptyDict), Declared("open", Dict1("choices", VList(<<VStr(<<"b">>)>>)))}

\* the values given as a response
CleanResponses ==
  {VStr(<<"a">>), VStr(<<"c">>), VInt(1), VFloat(10), VFloat(15), URL(VStr(<<"u">>)), PyNone,
   VList(<<>>), VList(<<VStr(<<"a">>)>>), VList(<<VStr(<<"a">>), VStr(<<"c">>)>>),
   VList(<<VFloat(10), VFloat(20)>>), VList(<<VInt(1)>>),
   VStr(DateText), VStr(NoDateText), VStr(TimeText), VStr(T1)}

\* the metadata given besides type and type_options
CleanMetadata ==
  {EmptyDict,
   Dict1("choice_order", ChoicesAB),
   Dict1("choice_order", VList(<<VStr(<<"a">>)>>)),
   Dict1("choice_order", VList(<<VStr(<<"c">>), VStr(<<"b">>), VFloat(10), VStr(<<"a">>)>>)),
   Dict1("choice_order", VStr(<<"a", "b">>)),
   Dict1("language", VStr(<<"en">>)), Dict1("language", VInt(1)),
   Dict1("format", VInt(1)),
   Dict1("dimensions", VList(<<VFloat(10)>>))}

\* the values given as an identifier
CleanIds ==
  {VStr(<<"r">>), VInt(7), VFloat(15), URL(VStr(<<"u">>)),
   VDateTime(<<2021, 2, 3, 4, 5, 6, 0, 0>>), VDate(<<2021, 2, 3>>), VTime(<<4, 5, 6, 0>>),
   VList(<<>>), VList(<<VStr(<<"1">>)>>), VList(<<VFloat(10)>>), VList(<<VInt(1)>>),
   VList(<<VStr(<<"1">>), VFloat(10)>>)}

\* the metadata of answers to an open question whose type or type_options
\* are missing, are no type or no object, or break the question validator
OpenMetadata ==
  {EmptyDict, Dict1("type", VStr(<<"text">>)), Dict1("type_options", EmptyDict),
   Dict1("type", VStr(<<"select_one">>)), Dict1("type_options", Dict1("choices", ChoicesAB))}
  \cup {With(Dict1("type", type), "type_options", type_options) :
          type \in {VStr(<<"open">>), VStr(<<"bogus">>), VInt(1), PyNone, VList(<<VStr(<<"text">>)>>), EmptyDict,
                    VStr(<<"select_one">>), VStr(<<"select_many">>), VStr(<<"numeric">>), VStr(<<"text">>)},
          type_options \in {EmptyDict, VStr(<<"a">>), VList(<<>>), PyNone, Dict1("choices", VStr(<<"a">>)),
                            Dict1("choices", ChoicesAB), Dict1("range", VList(<<VFloat(15)>>)),
                            Dict1("range", VList(<<VInt(1)>>))}}

\* lists given as the response to a geo_point question: of 0 to 5 items,
\* of floats only and with another item
GeoResponses ==
  {VList(items) : items \in
     {<<>>, <<VFloat(10)>>, <<VInt(1)>>, <<VFloat(10), VFloat(25)>>, <<VFloat(10), VStr(<<"a">>)>>,
      <<VFloat(10), VFloat(25), VFloat(30)>>, <<VFloat(10), VFloat(25), VFloat(30), VFloat(45)>>,
      <<VFloat(10), VInt(2), VFloat(30), VFloat(45)>>,
      <<VFloat(10), VFloat(25), VFloat(30), VFloat(45), VFloat(50)>>,
      <<VFloat(10), VFloat(25), VFloat(30), VFloat(45), VInt(5)>>}}

\* the values given as the dimensions of a media answer
DimensionsValues ==
  {VList(<<>>), VList(<<VInt(1)>>), VList(<<VInt(640), VInt(480)>>), VList(<<VInt(1), VInt(2), VInt(3)>>),
   VList(<<VFloat(15)>>), VList(<<VInt(1), VStr(<<"a">>)>>), VList(<<VInt(640), VFloat(4800)>>),
   VList(<<VFloat(10), VInt(2), VInt(3)>>), VStr(<<"1", "2">>), VInt(2)}

\* texts given as the response to a datetime, date or time question, besides
\* "2021-02-03", "2021-02-29", "04:05" and the timestamp T1:
\* "25:26", "04:05:06", "04:05:06.5", "04:05:06Z", "04:05:06+02:00", "04",
\* "2021-02-03T04:05:06Z", "2021-02-03T04:05:06", "2021-02-29T03:04:05+00:00",
\* "2021-02-03T04:05:06.123456+00:00", "2021-02-03t04:05:06+00:00", "2021-02-03T24:05:06+00:00",
\* "2021-2-3", "20210203", "x"
TemporalTexts ==
  {VStr(DateText), VStr(NoDateText), VStr(TimeText), VStr(T1),
   VStr(<<"2", "5", ":", "2", "6">>),
   VStr(<<"0", "4", ":", "0", "5", ":", "0", "6">>),
   VStr(<<"0", "4", ":", "0", "5", ":", "0", "6", ".", "5">>),
   VStr(<<"0", "4", ":", "0", "5", ":", "0", "6", "Z">>),
   VStr(<<"0", "4", ":", "0", "5", ":", "0", "6", "+", "0", "2", ":", "0", "0">>),
   VStr(<<"0", "4">>),
   VStr(<<"2", "0", "2", "1", "-", "0", "2", "-", "0", "3", "T", "0", "4", ":", "0", "5", ":", "0", "6", "Z">>),
   VStr(<<"2", "0", "2", "1", "-", "0", "2", "-", "0", "3", "T", "0", "4", ":", "0", "5", ":", "0", "6">>),
   VStr(<<"2", "0", "2", "1", "-", "0", "2", "-", "2", "9", "T", "0", "3", ":", "0", "4", ":", "0", "5", "+", "0", "0", ":", "0", "0">>),
   VStr(<<"2", "0", "2", "1", "-", "0", "2", "-", "0", "3", "T", "0", "4", ":", "0", "5", ":", "0", "6", ".", "1", "2", "3", "4", "5", "6", "+", "0", "0", ":", "0", "0">>),
   VStr(<<"2", "0", "2", "1", "-", "0", "2", "-", "0", "3", "t", "0", "4", ":", "0", "5", ":", "0", "6", "+", "0", "0", ":", "0", "0">>),
   VStr(<<"2", "0", "2", "1", "-", "0", "2", "-", "0", "3", "T", "2", "4", ":", "0", "5", ":", "0", "6", "+", "0", "0", ":", "0", "0">>),
   VStr(<<"2", "0", "2", "1", "-", "2", "-", "3">>),
   VStr(<<"2", "0", "2", "1", "0", "2", "0", "3">>),
   VStr(<<"x">>)}

\* an answer with plain identifiers, and the answers with one identifier varied
Answer(row_id, contact_id, session_id, response, metadata) ==
  Row(VStr(T1), row_id, contact_id, session_id, VStr(<<"q">>), response, metadata)

PlainAnswer(response, metadata) == Answer(VStr(<<"r">>), VInt(1), VStr(<<"s">>), response, metadata)

\* the inputs of full_clean: <<question, answer>>
CleanInputs ==
  {<<Declared(d[1], d[2]), PlainAnswer(r, m)>> : d \in Declarations, r \in CleanResponses, m \in CleanMetadata}
  \cup {<<q, PlainAnswer(r, With(With(m, "type", VStr(<<d[1]>>)), "type_options", d[2]))>> :
          q \in OpenQuestions, d \in Declarations, r \in CleanResponses, m \in CleanMetadata}
  \cup {<<Declared("open", EmptyDict), PlainAnswer(r, m)>> :
          r \in {VStr(<<"a">>), VStr(<<"c">>), VInt(1), PyNone, VList(<<VInt(1)>>)}, m \in OpenMetadata}
  \cup {<<Declared("geo_point", EmptyDict), PlainAnswer(r, EmptyDict)>> : r \in GeoResponses}
  \cup {<<Declared(type, EmptyDict), PlainAnswer(r, EmptyDict)>> : type \in {"datetime", "date", "time"}, r \in TemporalTexts}
  \cup {<<Declared(type, EmptyDict), PlainAnswer(r, With(m, "dimensions", d))>> :
          type \in {"image", "video", "audio"}, r \in {URL(VStr(<<"u">>)), VInt(1)},
          m \in {EmptyDict, Dict1("format", VInt(1)), Dict1("language", VInt(1))}, d \in DimensionsValues}
  \cup {<<Declared("text", EmptyDict), Answer(v, VInt(1), VStr(<<"s">>), VStr(<<"a">>), EmptyDict)>> : v \in CleanIds}
  \cup {<<Declared("text", EmptyDict), Answer(VStr(<<"r">>), v, VStr(<<"s">>), VStr(<<"a">>), EmptyDict)>> : v \in CleanIds}
  \cup {<<Declared("text", EmptyDict), Answer(VStr(<<"r">>), VInt(1), v, VStr(<<"a">>), EmptyDict)>> : v \in CleanIds}

\* FlowQuestion.Type
QuestionTypes == {ValidTypes[i] : i \in 1..Len(ValidTypes)} \cup {"open"}

\* the values given as choices and as range
ChoicesValues == {ChoicesAB, VList(<<>>), VStr(<<"a", "b">>), VInt(1), EmptyDict}

RangeValues ==
  {VList(<<VInt(1), VInt(5)>>), VList(<<VInt(5), VInt(1)>>), VList(<<>>), VList(<<VInt(1)>>),
   VList(<<VInt(1), VInt(2), VInt(3)>>), VList(<<VFloat(15)>>), VList(<<VFloat(15), VInt(2)>>),
   VList(<<VStr(<<"a">>), VStr(<<"b">>)>>), VList(<<VInt(1), VStr(<<"b">>), VInt(3)>>),
   VStr(<<"1", "5">>), VInt(2), EmptyDict}

\* the type_options given to a declaration: choices, range, both or neither
TypeOptions ==
  {EmptyDict}
  \cup {Dict1("choices", c) : c \in ChoicesValues}
  \cup {Dict1("range", r) : r \in RangeValues}
  \cup {With(Dict1("choices", c), "range", r) : c \in ChoicesValues, r \in RangeValues}

CleanInit ==
  /\ flows = {} /\ questions = {} /\ responses = <<>> /\ codec = CodecIdle
  /\ \/ \E input \in CleanInputs : last = [op |-> "answer", question |-> input[1], row |-> input[2]]
     \/ \E type \in QuestionTypes, type_options \in TypeOptions :
          last = [op |-> "question", type |-> type, type_options |-> type_options]

\* answer.full_clean(exclude=["question", "flow"], validate_unique=False)
AnswerFullClean ==
  /\ last.op = "answer"
  /\ last' = [op |-> "cleaned", question |-> last.question, row |-> last.row,
              result |-> full_clean("f", last.question, last.row)]
  /\ UNCHANGED <<flows, questions, responses, codec>>

\* FlowQuestion.clean: the messages of errors["type_options"]
QuestionClean ==
  /\ last.op = "question"
  /\ last' = [op |-> "question_cleaned", type |-> last.type, type_options |-> last.type_options,
              errors |-> validate_type_options(last.type, last.type_options)]
  /\ UNCHANGED <<flows, questions, responses, codec>>

CleanNext == AnswerFullClean \/ QuestionClean

SpecClean == CleanInit /\ [][CleanNext]_vars

(***************************************************************************)
(* Properties of the validators.                                           *)
(***************************************************************************)
\* the validation reported msg on field
Reported(result, field, msg) == \E i \in 1..Len(result.errors) : result.errors[i] = Err(field, msg)

\* the validation reported something on field
ReportedOn(result, field) == \E i \in 1..Len(result.errors) : result.errors[i].field = field

\* the identifiers of an answer: the value given and the type field
Identifiers(row) ==
  {<<row.row_id, "row_id_type">>, <<row.contact_id, "contact_id_type">>, <<row.session_id, "session_id_type">>}

\* a list of strings only, or of floats only (the empty list is both)
ListOfStrings(v) == v.k = "list" /\ \A i \in 1..Len(v.items) : v.items[i].k \in {"str", "url"}

ListOfFloats(v) == v.k = "list" /\ \A i \in 1..Len(v.items) : v.items[i].k = "float"

\* C14 as stated: an identifier that is a float, a URL, a datetime, a date,
\* a time or any list fails validation with "must be string or integer" on
\* the identifier's type field; a string or an integer gives no error on
\* that field.
C14_IdentifierTypes ==
  last.op = "cleaned" =>
    \A id \in Identifiers(last.row) :
      /\ id[1].k \in {"float", "url", "datetime", "date", "time", "list"} =>
           Reported(last.result, id[2], "must be string or integer")
      /\ id[1].k \in {"str", "int"} => ~ReportedOn(last.result, id[2])

\* C14 amended: as stated for a float, a URL, a datetime, a date, a time, a
\* list of strings and a list of floats; any other list has no type tag and
\* fails validation with "This field cannot be null." on the type field.
C14_IdentifierTypesAmended ==
  last.op = "cleaned" =>
    \A id \in Identifiers(last.row) :
      /\ (id[1].k \in {"float", "url", "datetime", "date", "time"} \/ ListOfStrings(id[1]) \/ ListOfFloats(id[1])) =>
           Reported(last.result, id[2], "must be string or integer")
      /\ (id[1].k = "list" /\ ~ListOfStrings(id[1]) /\ ~ListOfFloats(id[1])) =>
           /\ Reported(last.result, id[2], "This field cannot be null.")
           /\ ~Reported(last.result, id[2], "must be string or integer")
      /\ id[1].k \in {"str", "int"} => ~ReportedOn(last.result, id[2])

\* C14 witness: a contact_id that is a list of floats was refused on its
\* type field only, the other two identifiers being a string and a string
C14_Witness ==
  /\ last.op = "cleaned"
  /\ last.row.contact_id = VList(<<VFloat(10)>>)
  /\ last.result.errors = <<Err("contact_id_type", "must be string or integer")>>
  /\ last.result.answer = <<>>

\* the question that the metadata of an answer to an open question declares
DeclaredByMetadata(metadata) ==
  Declared(GetKey(metadata, "type").s[1], GetKey(metadata, "type_options"))

\* the metadata declares a concrete type and an object type_options that
\* pass the question type validator
DeclaresValid(metadata) ==
  /\ HasKey(metadata, "type") /\ HasKey(metadata, "type_options")
  /\ GetKey(metadata, "type").k = "str" /\ Len(GetKey(metadata, "type").s) = 1
  /\ GetKey(metadata, "type").s[1] \in QuestionTypes \ {"open"}
  /\ GetKey(metadata, "type_options").k = "dict"
  /\ validate_type_options(GetKey(metadata, "type").s[1], GetKey(metadata, "type_options")) = <<>>

\* C15: an answer to an open question whose metadata declares a concrete
\* type T and valid type_options O is validated with exactly the outcome
\* and the field errors that the same value and metadata have against a
\* question declared with type T and type_options O.
C15_OpenAsNative ==
  (last.op = "cleaned" /\ last.question.type = "open" /\ DeclaresValid(last.row.response_metadata)) =>
    LET native == full_clean("f", DeclaredByMetadata(last.row.response_metadata), last.row)
    IN last.result.raised = native.raised /\ last.result.errors = native.errors

\* C15 witness: the answer "a" with choice_order ["a", "b"] to an open
\* question declared select_one of ["a", "b"] by its metadata ended in a
\* KeyError, while the same answer to the native question is valid
C15_Witness ==
  /\ last.op = "cleaned" /\ last.question = Declared("open", EmptyDict)
  /\ DeclaresValid(last.row.response_metadata)
  /\ DeclaredByMetadata(last.row.response_metadata) = Declared("select_one", Dict1("choices", ChoicesAB))
  /\ last.row.response = VStr(<<"a">>)
  /\ HasKey(last.row.response_metadata, "choice_order")
  /\ GetKey(last.row.response_metadata, "choice_order") = ChoicesAB
  /\ last.result.raised = "KeyError"
  /\ full_clean("f", DeclaredByMetadata(last.row.response_metadata), last.row).errors = <<>>
  /\ full_clean("f", DeclaredByMetadata(last.row.response_metadata), last.row).raised = ""

\* the type_options have the key with a list as its value
HasList(type_options, key) == HasKey(type_options, key) /\ GetKey(type_options, key).k = "list"

\* a list of integers only
ListOfIntegers(v) == v.k = "list" /\ \A i \in 1..Len(v.items) : v.items[i].k = "int"

\* the declarations that the rules of the question type validator allow
Acceptable(type, type_options) ==
  \/ type \in {"select_one", "select_many"} /\ HasList(type_options, "choices")
  \/ /\ type = "numeric"
     /\ \/ ~HasKey(type_options, "range")
        \/ ListOfIntegers(GetKey(type_options, "range")) /\ Len(GetKey(type_options, "range").items) = 2
  \/ type \notin {"select_one", "select_many", "numeric"}

\* C16: validate_type_options reports no error exactly when the type is
\* select_one or select_many and choices is present and a list, or the type
\* is numeric and range is absent or a list of exactly two integers, or the
\* type is any other question type.
C16_ValidatorAccepts ==
  last.op = "question_cleaned" => (last.errors = <<>> <=> Acceptable(last.type, last.type_options))

\* C16 witness: a numeric declaration with a range of two integers, and
\* with choices that are no list, was accepted
C16_Witness ==
  /\ last.op = "question_cleaned" /\ last.type = "numeric" /\ last.errors = <<>>
  /\ HasKey(last.type_options, "range") /\ GetKey(last.type_options, "range") = VList(<<VInt(5), VInt(1)>>)
  /\ HasKey(last.type_options, "choices") /\ GetKey(last.type_options, "choices").k # "list"

\* C17: the errors of validate_type_options hold a message for every rule
\* of the type that the type_options break: choices missing or no list for
\* select_one and select_many; for numeric a range that is no list, a range
\* list with an element that is no integer, a range list whose length is not 2.
C17_ErrorsAccumulate ==
  last.op = "question_cleaned" =>
    /\ (last.type \in {"select_one", "select_many"} /\ ~HasKey(last.type_options, "choices")) =>
         Reported(last, "type_options", "choices is required for " \o last.type \o " type")
    /\ (last.type \in {"select_one", "select_many"} /\ HasKey(last.type_options, "choices")
        /\ ~HasList(last.type_options, "choices")) =>
         Reported(last, "type_options", "choices must be an array")
    /\ (last.type = "numeric" /\ HasKey(last.type_options, "range") /\ ~HasList(last.type_options, "range")) =>
         Reported(last, "type_options", "range must be an array")
    /\ (last.type = "numeric" /\ HasList(last.type_options, "range")
        /\ ~ListOfIntegers(GetKey(last.type_options, "range"))) =>
         Reported(last, "type_options", "range can only contain integers")
    /\ (last.type = "numeric" /\ HasList(last.type_options, "range")
        /\ Len(GetKey(last.type_options, "range").items) # 2) =>
         Reported(last, "type_options", "range must contain exactly 2 items")

\* C17 witness: the range [1.5] of a numeric declaration, which is no list
\* of integers and has not 2 items, was reported with one message
C17_Witness ==
  /\ last.op = "question_cleaned" /\ last.type = "numeric"
  /\ last.type_options = Dict1("range", VList(<<VFloat(15)>>))
  /\ last.errors = <<Err("type_options", "range can only contain integers")>>

\* two values are equal as Python compares them: the same value, the same
\* number as an int and as a float, the same characters as a str and as a URL
EqualValues(a, b) ==
  \/ a = b
  \/ a.k \in {"str", "url"} /\ b.k \in {"str", "url"} /\ a.s = b.s
  \/ a.k = "int" /\ b.k = "float" /\ 10 * a.n = b.n
  \/ a.k = "float" /\ b.k = "int" /\ a.n = 10 * b.n

\* the value is one of the choices
IsChoice(v, choices) == \E i \in 1..Len(choices.items) : EqualValues(choices.items[i], v)

\* the choices of the question an answer was validated for
ChoicesOf(question) == GetKey(question.type_options, "choices")

\* C18: an answer to a select_one question has an error on response
\* ("is not a valid choice") exactly when its value is not one of the
\* choices; an answer to a select_many question has "must be an array" when
\* the value is no list, "contains choices not in" when it is a list with an
\* element that is not one of the choices, and no error on response when
\* it is a list of choices.
C18_ChoiceMembership ==
  (last.op = "cleaned" /\ last.result.raised = "") =>
    /\ last.question.type = "select_one" =>
         /\ ReportedOn(last.result, "response") <=> ~IsChoice(last.row.response, ChoicesOf(last.question))
         /\ ReportedOn(last.result, "response") => Reported(last.result, "response", "is not a valid choice")
    /\ last.question.type = "select_many" =>
         IF last.row.response.k # "list" THEN Reported(last.result, "response", "must be an array")
         ELSE IF \E i \in 1..Len(last.row.response.items) : ~IsChoice(last.row.response.items[i], ChoicesOf(last.question))
           THEN Reported(last.result, "response", "contains choices not in choices")
         ELSE ~ReportedOn(last.result, "response")

\* C18 witness: the list ["a", "c"] given to a select_many question with
\* the choices ["a", "b"] was refused for its element "c"
C18_Witness ==
  /\ last.op = "cleaned" /\ last.question = Declared("select_many", Dict1("choices", ChoicesAB))
  /\ last.row.response = VList(<<VStr(<<"a">>), VStr(<<"c">>)>>)
  /\ last.result.errors = <<Err("response", "contains choices not in choices")>>

\* C19: for an answer to a select_one or select_many question, a
\* choice_order that is no list is reported with "choice_order must be an
\* array", a choice_order list that lacks one of the choices with
\* "choice_order contains choices not in choices", and a choice_order list
\* in which every choice appears (other elements allowed) with neither; so
\* is an answer without choice_order.
C19_ChoiceOrder ==
  (last.op = "cleaned" /\ last.question.type \in {"select_one", "select_many"} /\ last.result.raised = "") =>
    LET metadata == last.row.response_metadata
        order == GetKey(metadata, "choice_order")
        choices == ChoicesOf(last.question)
        notArray == Reported(last.result, "response_metadata", "choice_order must be an array")
        lacking == Reported(last.result, "response_metadata", "choice_order contains choices not in choices")
    IN IF ~HasKey(metadata, "choice_order") THEN ~notArray /\ ~lacking
       ELSE IF order.k # "list" THEN notArray /\ ~lacking
       ELSE IF \E i \in 1..Len(choices.items) : ~IsChoice(choices.items[i], order) THEN lacking /\ ~notArray
       ELSE ~notArray /\ ~lacking

\* C19 witness: a choice_order with every choice and two other elements
\* was accepted for a valid answer
C19_Witness ==
  /\ last.op = "cleaned" /\ last.question = Declared("select_one", Dict1("choices", ChoicesAB))
  /\ HasKey(last.row.response_metadata, "choice_order")
  /\ Len(GetKey(last.row.response_metadata, "choice_order").items) = 4
  /\ last.result.errors = <<>> /\ last.result.answer # <<>>

\* C20: validating an answer to an image, video or audio question whose
\* response is a plain string s reports nothing on response and leaves the
\* response stored with the tag URL and the payload s; a response that is
\* neither a string nor a URL is reported with "must be a URL".
C20_MediaCoercion ==
  (last.op = "cleaned" /\ last.question.type \in {"image", "video", "audio"}) =>
    /\ last.row.response.k = "str" =>
         /\ ~ReportedOn(last.result, "response")
         /\ last.result.answer # <<>> =>
              /\ last.result.answer[1].response_type = Type_URL
              /\ last.result.answer[1].response_value.s = last.row.response.s
    /\ last.row.response.k \notin {"str", "url"} => Reported(last.result, "response", "must be a URL")

\* C20 witness: the string "a" given to an image question passed
\* validation and is stored with the tag URL and the text of the str class
C20_Witness ==
  /\ last.op = "cleaned" /\ last.question.type = "image"
  /\ last.row.response = VStr(<<"a">>)
  /\ last.result.errors = <<>> /\ last.result.answer # <<>>
  /\ last.result.answer[1].response_type = Type_URL
  /\ last.result.answer[1].response_value.s = ClassStrText

(***************************************************************************)
(* SpecWalk: a client pages through the responses of flow f1.  The table   *)
(* is one that accepted submissions leave and is not written to; the       *)
(* client sends a request without cursors, follows the next link of each   *)
(* response it gets, and may follow the previous link of a page once.      *)
(***************************************************************************)
\* the table: nothing or one response stored for flow f2, then a batch
\* for flow f1 of the valid rows and of a row for q2 whose row_id is the
\* string "0"
WalkInit ==
  /\ flows = FixtureFlows
  /\ questions = FixtureQuestions
  /\ responses \in
      {create(FixtureFlows, FixtureQuestions, base, "f1", batch).rows :
         base \in {<<>>, create(FixtureFlows, FixtureQuestions, <<>>, "f2",
                               <<Row(VStr(T2), VInt(0), VInt(1), VStr(<<"s">>), VStr(<<"q3">>), VStr(<<"a">>), EmptyDict)>>).rows},
         batch \in SeqsUpTo(ValidRows \cup {Row(VStr(T2), VStr(<<"0">>), VInt(1), VStr(<<"s">>), VStr(<<"q2">>), VInt(5), EmptyDict)},
                            MaxResponses)}
  /\ last = NoRequest
  /\ codec = CodecIdle

\* the first GET: no cursor, any filters, a page size of 1 or the default
WalkStart ==
  /\ last = NoRequest
  /\ \E f \in Filters, size \in {Absent, Present(<<"1">>)} :
       \E response \in {list(flows, responses, "f1", Params(f[1], f[2], size, Absent, Absent))} :
         last' = [op |-> "walk", params |-> response.params, response |-> response,
                  visited |-> response.page, pages |-> <<>>, n |-> 1]
  /\ UNCHANGED <<flows, questions, responses, codec>>

\* GET of the next link of the response the client holds
WalkNext ==
  /\ last.op = "walk" /\ last.n < MaxRequests
  /\ last.response.next # <<>>
  /\ \E response \in {list(flows, responses, "f1", last.response.next[1])} :
       last' = [op |-> "walk", params |-> last.params, response |-> response,
                visited |-> last.visited \o response.page, pages |-> Append(last.pages, last.response.page),
                n |-> last.n + 1]
  /\ UNCHANGED <<flows, questions, responses, codec>>

\* GET of the previous link of the response the client holds
WalkPrevious ==
  /\ last.op = "walk"
  /\ last.response.previous # <<>>
  /\ last' = [op |-> "back", walk |-> last, response |-> list(flows, responses, "f1", last.response.previous[1])]
  /\ UNCHANGED <<flows, questions, responses, codec>>

WalkStep == WalkStart \/ WalkNext \/ WalkPrevious

SpecWalk == WalkInit /\ [][WalkStep]_vars

(***************************************************************************)
(* SpecWorkers: two workers each handle one POST of a batch of responses.  *)
(* A worker shares nothing with the other but the table.  It validates its *)
(* batch (views.py:243-292, which reads the flow and its questions and,    *)
(* with validate_unique=False, not the table) and then inserts it          *)
(* (294-305); the steps of the two workers interleave in any order.  The   *)
(* insert is one step: bulk_create runs inside transaction.atomic and the  *)
(* unique constraint is the database's.                                    *)
(***************************************************************************)
\* a worker: where it is, its request, the answers that passed and its reply
Worker(pc, fid, batch, answers, status, raised, detail) ==
  [pc |-> pc, flow |-> fid, batch |-> batch, answers |-> answers, status |-> status, raised |-> raised, detail |-> detail]

\* the table holds nothing or the row_id "a2" for q1; each worker got a batch
\* for flow f1 of rows with the row_ids 0 and "a2" for q1 and of a row
\* with an answer outside the choices, or an empty batch for an unknown flow
WorkersInit ==
  /\ flows = FixtureFlows
  /\ questions = FixtureQuestions
  /\ responses \in {create(FixtureFlows, FixtureQuestions, <<>>, "f1", b).rows :
                      b \in {<<>>, <<Row(VStr(T1), VStr(<<"a", "2">>), VInt(1), VStr(<<"s">>), VStr(<<"q1">>), VStr(<<"a">>), EmptyDict)>>}}
  /\ \E requests \in [1..2 -> ({<<"f1", b>> : b \in SeqsUpTo({r \in ValidRows \cup InvalidRows :
                                                                  /\ r.question_id = VStr(<<"q1">>)
                                                                  /\ r.row_id \in {VInt(0), VStr(<<"a", "2">>), VStr(<<"a", "1">>)}
                                                                  /\ r.response \in {VStr(<<"a">>), VStr(<<"c">>)}
                                                                  /\ (r.timestamp = VStr(T1) \/ r.row_id = VStr(<<"a", "2">>))},
                                                               MaxBatch)}
                                   \cup {<<"nope", <<>>>>})] :
       last = [op |-> "workers", base |-> responses,
               worker |-> [w \in 1..2 |-> Worker("received", requests[w][1], requests[w][2], <<>>, 0, "", "")]]
  /\ codec = CodecIdle

\* lines 243-292 of create in worker w: the reply when the flow is unknown
\* or a row fails, the answers to insert otherwise
Validate(w) ==
  /\ last.op = "workers" /\ last.worker[w].pc = "received"
  /\ \E request \in {last.worker[w]} :
       IF ~FlowExists(flows, request.flow)
       THEN last' = [last EXCEPT !.worker[w] = Worker("done", request.flow, request.batch, <<>>, 404, "", "")]
       ELSE \E cleaned \in {CleanRows(request.flow, {q \in questions : q.flow = request.flow}, request.batch)} :
              last' = [last EXCEPT !.worker[w] =
                         IF \E i \in 1..Len(cleaned) : cleaned[i].raised # ""
                         THEN Worker("done", request.flow, request.batch, <<>>, 500, "raised", "")
                         ELSE IF HasErrors(cleaned)
                         THEN Worker("done", request.flow, request.batch, <<>>, 400, "", "")
                         ELSE Worker("validated", request.flow, request.batch, Answers(cleaned), 0, "", "")]
  /\ UNCHANGED <<flows, questions, responses, codec>>

\* a mutant of Insert: the constraint is judged on the table as it was
\* when the requests came in
InsertOnSnapshot(w) ==
  /\ last.op = "workers" /\ last.worker[w].pc = "validated"
  /\ \E request \in {last.worker[w]} :
       \E inserted \in {bulk_create(last.base, request.answers)} :
         /\ responses' = IF inserted.raised # "" THEN responses ELSE responses \o WithIds(responses, request.answers)
         /\ last' = [last EXCEPT !.worker[w] =
                       IF inserted.raised # ""
                       THEN Worker("done", request.flow, request.batch, request.answers, 400, "",
                                   "row_id is not unique for flow question")
                       ELSE Worker("done", request.flow, request.batch, request.answers, 204, "", "")]
  /\ UNCHANGED <<flows, questions, codec>>

\* lines 294-307 of create in worker w: the insert on the table as it is
\* now, and the reply
Insert(w) ==
  /\ last.op = "workers" /\ last.worker[w].pc = "validated"
  /\ \E request \in {last.worker[w]} :
       \E inserted \in {bulk_create(responses, request.answers)} :
         /\ responses' = inserted.rows
         /\ last' = [last EXCEPT !.worker[w] =
                       IF inserted.raised # ""
                       THEN Worker("done", request.flow, request.batch, request.answers, 400, "",
                                   "row_id is not unique for flow question")
                       ELSE Worker("done", request.flow, request.batch, request.answers, 204, "", "")]
  /\ UNCHANGED <<flows, questions, codec>>

WorkersStep == \E w \in 1..2 : Validate(w) \/ Insert(w)

SpecWorkers == WorkersInit /\ [][WorkersStep]_vars

(***************************************************************************)
(* Further properties of the response endpoints.                           *)
(***************************************************************************)
\* C21: a submission or a listing addressed to a flow id that is no valid
\* id or that no stored flow has is answered with 404, and a submission to
\* it stores no response.
C21_UnknownFlow ==
  (last.op \in {"create", "list"} /\ ~(\E f \in flows : f.id = last.flow)) =>
    /\ last.status = 404
    /\ last.op = "create" => responses = last.before

\* C21 witness: a batch of one row that is valid for flow f1 was submitted
\* to an id that is no UUID, over a table that holds responses already
C21_Witness ==
  /\ last.op = "create" /\ last.flow = "invalid" /\ Len(last.batch) = 1
  /\ last.status = 404 /\ responses = last.before /\ responses # <<>>

\* the row names a question of the flow
KnownQuestion(fid, row) == \E q \in questions : q.flow = fid /\ row.question_id = VStr(<<q.id>>)

\* the question of the flow that the row names
QuestionOf(fid, row) == CHOOSE q \in questions : q.flow = fid /\ row.question_id = VStr(<<q.id>>)

\* C22: when a batch is rejected for validation, the error map has an entry
\* at index i exactly for the rows i that fail: a row whose question_id is
\* not the id of a question of the addressed flow has the entry "Question
\* with ID <id> not found" (also when another flow has that question), a
\* row whose answer fails validation has the answer's errors, a row that
\* passes has none; the rows after the first failing row are validated too.
C22_PerIndexErrors ==
  (last.op = "create" /\ last.status = 400 /\ last.detail = "") =>
    /\ Len(last.errors) = Len(last.batch)
    /\ \E i \in 1..Len(last.batch) : last.errors[i] # <<>>
    /\ \A i \in 1..Len(last.batch) :
         IF ~KnownQuestion(last.flow, last.batch[i])
         THEN last.errors[i] = <<Err("question_id", "Question with ID not found")>>
         ELSE last.errors[i] = full_clean(last.flow, QuestionOf(last.flow, last.batch[i]), last.batch[i]).errors

\* C22 witness: a batch to flow f1 whose first row names q3, a question of
\* flow f2, and whose second row gives an answer outside the choices was
\* rejected with an entry for each of the two rows
C22_Witness ==
  /\ last.op = "create" /\ last.flow = "f1" /\ last.status = 400 /\ Len(last.batch) = 2
  /\ last.batch[1].question_id = VStr(<<"q3">>)
  /\ last.errors[1] = <<Err("question_id", "Question with ID not found")>>
  /\ last.batch[2].question_id = VStr(<<"q1">>)
  /\ last.errors[2] = <<Err("response", "is not a valid choice")>>
  /\ responses = last.before

(***************************************************************************)
(* Further properties of the validators.                                   *)
(***************************************************************************)
\* the value is one of the 11 question types that are not "open"
ConcreteType(v) == v.k = "str" /\ Len(v.s) = 1 /\ v.s[1] \in QuestionTypes \ {"open"}

\* the type and the type_options that the metadata of an answer to an open
\* question resolves to: the given ones when they are a concrete type and an
\* object, the question's own type and no options otherwise
ResolvedType(metadata) ==
  IF HasKey(metadata, "type") /\ ConcreteType(GetKey(metadata, "type")) THEN GetKey(metadata, "type").s[1] ELSE "open"

ResolvedOptions(metadata) ==
  IF HasKey(metadata, "type_options") /\ GetKey(metadata, "type_options").k = "dict"
  THEN GetKey(metadata, "type_options") ELSE EmptyDict

\* the messages on response_metadata that the metadata resolution gives
ResolutionMessages ==
  {"type is required", "type must be one of the valid types", "type_options is required", "type_options must be an object"}
  \cup {"type_options." \o msg : msg \in
          {"choices is required for select_one type", "choices is required for select_many type",
           "choices must be an array", "range must be an array", "range can only contain integers",
           "range must contain exactly 2 items"}}

\* C23: for an answer to an open question, validation reports on
\* response_metadata "type is required" when metadata.type is absent, "type
\* must be one of <the 11 concrete types>" when it is not one of them
\* ("open" included), "type_options is required" when type_options is
\* absent, "type_options must be an object" when it is no object, and every
\* violation that the question type validator finds in the resolved pair
\* with the prefix "type_options."; when one of these is reported, nothing
\* is reported on response.
C23_OpenMetadata ==
  (last.op = "cleaned" /\ last.question.type = "open") =>
    LET metadata == last.row.response_metadata
        On(msg) == Reported(last.result, "response_metadata", msg)
        violations == validate_type_options(ResolvedType(metadata), ResolvedOptions(metadata))
    IN /\ ~HasKey(metadata, "type") => On("type is required")
       /\ (HasKey(metadata, "type") /\ ~ConcreteType(GetKey(metadata, "type"))) => On("type must be one of the valid types")
       /\ ~HasKey(metadata, "type_options") => On("type_options is required")
       /\ (HasKey(metadata, "type_options") /\ GetKey(metadata, "type_options").k # "dict") =>
            On("type_options must be an object")
       /\ \A i \in 1..Len(violations) : On("type_options." \o violations[i].msg)
       /\ (\E msg \in ResolutionMessages : On(msg)) => ~ReportedOn(last.result, "response")

\* C23 witness: the metadata {"type": ["text"], "type_options": {}} of an
\* answer to an open question: its type is none of the 11 types, and the
\* validation ended in a TypeError with nothing reported
C23_Witness ==
  /\ last.op = "cleaned" /\ last.question.type = "open"
  /\ HasKey(last.row.response_metadata, "type")
  /\ GetKey(last.row.response_metadata, "type") = VList(<<VStr(<<"text">>)>>)
  /\ last.result.raised = "TypeError" /\ last.result.errors = <<>> /\ last.result.answer = <<>>

\* the errors of a validation that carry one of the messages, in the order
\* they were reported
Among(result, msgs) == SelectSeq(result.errors, LAMBDA e : e.msg \in msgs)

\* C24: a geo_point response that is a list is reported with "array may
\* only contain floats" when an item is no float and with "number of array
\* elements must be between 2 and 4 inclusive" when its length is outside
\* 2..4, with both in this order when both hold, with nothing else on
\* response, and with no error at all when it is a list of 2 to 4 floats; a dimensions list of a media answer
\* is reported with "dimensions must have a length of 2" when its length is
\* not 2 and with "dimensions items must be integers" when an item is no
\* integer, with both in this order when both hold.
C24_IndependentViolations ==
  (last.op = "cleaned" /\ last.result.raised = "") =>
    /\ (last.question.type = "geo_point" /\ last.row.response.k = "list") =>
         LET items == last.row.response.items
         IN /\ SelectSeq(last.result.errors, LAMBDA e : e.field = "response") =
                 (IF \E i \in 1..Len(items) : items[i].k # "float"
                  THEN <<Err("response", "array may only contain floats")>> ELSE <<>>)
                 \o (IF Len(items) \notin 2..4
                     THEN <<Err("response", "number of array elements must be between 2 and 4 inclusive")>> ELSE <<>>)
            /\ (Len(items) \in 2..4 /\ \A i \in 1..Len(items) : items[i].k = "float") => last.result.errors = <<>>
    /\ (/\ last.question.type \in {"image", "video", "audio"}
        /\ HasList(last.row.response_metadata, "dimensions")) =>
         LET items == GetKey(last.row.response_metadata, "dimensions").items
         IN Among(last.result, {"dimensions must have a length of 2", "dimensions items must be integers",
                                "dimensions must be an array"}) =
              (IF Len(items) # 2 THEN <<Err("response_metadata", "dimensions must have a length of 2")>> ELSE <<>>)
              \o (IF \E i \in 1..Len(items) : items[i].k # "int"
                  THEN <<Err("response_metadata", "dimensions items must be integers")>> ELSE <<>>)

\* C24 witness: the dimensions [1.0, 2, 3] of an answer to a video question
\* whose response is no URL and whose format is no string were reported
\* with the length and the item message, after the two other errors
C24_Witness ==
  /\ last.op = "cleaned" /\ last.question.type = "video"
  /\ HasKey(last.row.response_metadata, "dimensions")
  /\ GetKey(last.row.response_metadata, "dimensions") = VList(<<VFloat(10), VInt(2), VInt(3)>>)
  /\ last.result.errors = <<Err("response", "must be a URL"),
                            Err("response_metadata", "format must be a string"),
                            Err("response_metadata", "dimensions must have a length of 2"),
                            Err("response_metadata", "dimensions items must be integers")>>

(***************************************************************************)
(* The grammar of RFC 3339 (section 5.6), written from the RFC: full-date, *)
(* partial-time, time-offset, full-time and date-time.  Leap seconds are   *)
(* left out.                                                               *)
(***************************************************************************)
\* 2DIGIT at positions a and a + 1 of the text, with a value of at most max
TwoDigits(s, a, max) == a + 1 <= Len(s) /\ IsDigit(s[a]) /\ IsDigit(s[a + 1]) /\ ToInt(SubSeq(s, a, a + 1)) <= max

\* full-date = 4DIGIT "-" 2DIGIT "-" 2DIGIT, a day of the calendar
Rfc3339Date(s) ==
  /\ Len(s) = 10 /\ s[5] = "-" /\ s[8] = "-"
  /\ AllDigits(SubSeq(s, 1, 4)) /\ AllDigits(SubSeq(s, 6, 7)) /\ AllDigits(SubSeq(s, 9, 10))
  /\ ToInt(SubSeq(s, 1, 4)) >= 1 /\ ToInt(SubSeq(s, 6, 7)) \in 1..12
  /\ ToInt(SubSeq(s, 9, 10)) \in 1..DaysInMonth(ToInt(SubSeq(s, 1, 4)), ToInt(SubSeq(s, 6, 7)))

\* partial-time = 2DIGIT ":" 2DIGIT ":" 2DIGIT ["." 1*DIGIT]
Rfc3339PartialTime(s) ==
  /\ Len(s) >= 8 /\ s[3] = ":" /\ s[6] = ":"
  /\ TwoDigits(s, 1, 23) /\ TwoDigits(s, 4, 59) /\ TwoDigits(s, 7, 59)
  /\ Len(s) > 8 => (s[9] = "." /\ Len(s) >= 10 /\ AllDigits(SubSeq(s, 10, Len(s))))

\* time-offset = "Z" / ("+" / "-") 2DIGIT ":" 2DIGIT
Rfc3339Offset(s) ==
  \/ s \in {<<"Z">>, <<"z">>}
  \/ Len(s) = 6 /\ s[1] \in {"+", "-"} /\ s[4] = ":" /\ TwoDigits(s, 2, 23) /\ TwoDigits(s, 5, 59)

\* full-time = partial-time time-offset
Rfc3339FullTime(s) ==
  \E n \in 1..Len(s) : Rfc3339PartialTime(SubSeq(s, 1, n)) /\ Rfc3339Offset(SubSeq(s, n + 1, Len(s)))

\* date-time = full-date "T" full-time ("t" and a space are allowed too)
Rfc3339DateTime(s) ==
  /\ Len(s) >= 11 /\ Rfc3339Date(SubSeq(s, 1, 10)) /\ s[11] \in {"T", "t", " "}
  /\ Rfc3339FullTime(SubSeq(s, 12, Len(s)))

\* the text is of the kind of a temporal question; a time is a full-time
\* or a partial-time
Rfc3339(kind, s) ==
  CASE kind = "datetime" -> Rfc3339DateTime(s)
    [] kind = "date" -> Rfc3339Date(s)
    [] kind = "time" -> Rfc3339FullTime(s) \/ Rfc3339PartialTime(s)

\* the tag and the message of a temporal question type
TemporalTag(kind) == CASE kind = "datetime" -> Type_DATETIME [] kind = "date" -> Type_DATE [] kind = "time" -> Type_TIME

TemporalMessage(kind) ==
  CASE kind = "datetime" -> "must be an RFC 3339 date-time"
    [] kind = "date" -> "must be an RFC 3339 date"
    [] kind = "time" -> "must be an RFC 3339 time"

\* C25: an answer to a datetime, date or time question whose response is a
\* string is accepted exactly when the string is an RFC 3339 date-time, date
\* or time; an accepted response is stored with the tag DATETIME, DATE or
\* TIME; a rejected one, and every response that is neither a string nor a
\* temporal value, has exactly one error on response, "must be an RFC 3339
\* <kind>".
C25_TemporalAnswers ==
  (last.op = "cleaned" /\ last.question.type \in {"datetime", "date", "time"}) =>
    LET kind == last.question.type
        response == last.row.response
        accepted == last.result.raised = "" /\ ~ReportedOn(last.result, "response")
        rejected == /\ last.result.raised = ""
                    /\ SelectSeq(last.result.errors, LAMBDA e : e.field = "response")
                         = <<Err("response", TemporalMessage(kind))>>
    IN /\ response.k = "str" => (accepted <=> Rfc3339(kind, response.s))
       /\ response.k = "str" => (accepted \/ rejected)
       /\ (response.k = "str" /\ accepted) =>
            last.result.answer # <<>> /\ last.result.answer[1].response_type = TemporalTag(kind)
       /\ response.k \notin {"str", "url", "datetime", "date", "time"} => rejected

\* C25 witness: the string "04:05", which has no seconds and is no RFC 3339
\* time, was accepted as the answer to a time question and is stored with
\* the tag TIME
C25_Witness ==
  /\ last.op = "cleaned" /\ last.question.type = "time"
  /\ last.row.response = VStr(TimeText) /\ ~Rfc3339("time", TimeText)
  /\ last.result.errors = <<>> /\ last.result.answer # <<>>
  /\ last.result.answer[1].response_type = Type_TIME
  /\ last.result.answer[1].response_value = VStr(<<"0", "4", ":", "0", "5", ":", "0", "0">>)

(***************************************************************************)
(* Properties of the stored responses and of the listing as a whole.       *)
(***************************************************************************)
\* the value has no tag of the codec: null, an object, or a list that is
\* neither of strings only nor of floats only
Untagged(v) == v.k \in {"none", "dict"} \/ (v.k = "list" /\ ~ListOfStrings(v) /\ ~ListOfFloats(v))

\* C26: a submitted row whose response value has no tag of the codec fails
\* validation ("This field cannot be null." on response_type when its
\* question is known), the batch with it is rejected and nothing of it is
\* stored; no stored response has an undefined response type tag.
C26_NoUntaggedResponse ==
  /\ \A i \in 1..Len(responses) : responses[i].row.response_type \in 0..8
  /\ (last.op = "create" /\ (\E f \in flows : f.id = last.flow)) =>
       \A i \in 1..Len(last.batch) :
         Untagged(last.batch[i].response) =>
           /\ last.status \in {400, 500} /\ last.detail = "" /\ responses = last.before
           /\ last.status = 400 =>
                /\ last.errors[i] # <<>>
                /\ KnownQuestion(last.flow, last.batch[i]) =>
                     \E n \in 1..Len(last.errors[i]) :
                       last.errors[i][n] = Err("response_type", "This field cannot be null.")

\* C26 witness: the response [1, "a"] to the select_many question q4, whose
\* choices are 1 and "a", was refused for its missing type tag alone, over
\* a table that holds responses
C26_Witness ==
  /\ last.op = "create" /\ last.flow = "f2" /\ last.status = 400 /\ Len(last.batch) = 1
  /\ last.batch[1].response = VList(<<VInt(1), VStr(<<"a">>)>>)
  /\ last.errors = <<(<<Err("response_type", "This field cannot be null.")>>)>>
  /\ responses = last.before /\ responses # <<>>

\* the stored responses of the flow, in sequence order
OfFlow(fid) == SelectSeq(responses, LAMBDA a : a.row.flow = fid)

\* C27: every list request on a stored flow with a page size of at least 1
\* ends with a page and never with an unhandled failure, whatever its
\* cursors and filters; a request whose page[afterCursor] names the flow's
\* last stored response, or whose page[beforeCursor] names its first,
\* returns an empty page.
C27_ListNeverFails ==
  (last.op = "list" /\ (\E f \in flows : f.id = last.flow) /\ EffectiveSize(last.params) >= 1) =>
    /\ last.status = 200 /\ last.raised = ""
    /\ (/\ last.params.before = Absent /\ OfFlow(last.flow) # <<>> /\ last.params.after # Absent
        /\ last.params.after[1] = OfFlow(last.flow)[Len(OfFlow(last.flow))].row.row_id_value) => last.page = <<>>
    /\ (/\ last.params.after = Absent /\ OfFlow(last.flow) # <<>> /\ last.params.before # Absent
        /\ last.params.before[1] = OfFlow(last.flow)[1].row.row_id_value) => last.page = <<>>

\* C27 witness: a request without filters whose page[afterCursor] names the
\* last of the flow's two responses, which have distinct row_ids, ended in
\* an IndexError
C27_Witness ==
  /\ last.op = "list" /\ last.flow = "f1" /\ Len(OfFlow("f1")) = 2 /\ DistinctRowIds("f1")
  /\ last.params = Params(Absent, Absent, Absent, Present(OfFlow("f1")[2].row.row_id_value), Absent)
  /\ last.status = 500 /\ last.raised = "IndexError"

\* C28: in every reachable state a cursor of a list request that names a
\* stored response of the flow names exactly one, also after submissions
\* that store one row_id for two questions of the flow, and the request
\* does not fail on resolving it.
C28_CursorUnambiguous ==
  last.op = "list" =>
    \A cursor \in {last.params.after, last.params.before} :
      Named(last.flow, cursor) # {} =>
        /\ Cardinality(Named(last.flow, cursor)) = 1
        /\ last.raised # "MultipleObjectsReturned"

\* C28 witness: flow f1 holds the row_id "a1" for its two questions q1 and
\* q2, and a request with page[afterCursor]=a1 ended in
\* MultipleObjectsReturned
C28_Witness ==
  /\ last.op = "list" /\ last.flow = "f1"
  /\ last.params = Params(Absent, Absent, Absent, Present(<<"a", "1">>), Absent)
  /\ {a.row.question : a \in Named("f1", last.params.after)} = {"q1", "q2"}
  /\ last.status = 500 /\ last.raised = "MultipleObjectsReturned"

\* the stored responses of the flow have pairwise distinct row_ids, a
\* row_id being the value the client gave: the integer 0 is not the string "0"
DistinctIds(fid) ==
  \A i, j \in 1..Len(responses) :
    (i # j /\ responses[i].row.flow = fid /\ responses[j].row.flow = fid)
      => <<responses[i].row.row_id_type, responses[i].row.row_id_value>>
           # <<responses[j].row.row_id_type, responses[j].row.row_id_value>>

\* C29: for a flow whose stored responses have pairwise distinct row_ids
\* and with no write in between, the requests from the one without cursors
\* along the next links, with a page size of at least 1, all return a page,
\* visit the responses that satisfy the timestamp filters in insertion
\* order, each once and all of them when the next link is null, and are
\* no more than these responses (one request when there is none); the
\* previous link of a page reached this way returns the page before it.
C29_CompleteTraversal ==
  /\ (last.op = "walk" /\ DistinctIds("f1")) =>
       /\ last.response.status = 200
       /\ last.visited = SubSeq(Matching("f1", last.params), 1, Len(last.visited))
       /\ last.response.next = <<>> => last.visited = Matching("f1", last.params)
       /\ last.n > 1 => last.response.page # <<>>
       /\ last.n <= Len(Matching("f1", last.params)) \/ last.n = 1
  /\ (last.op = "back" /\ DistinctIds("f1")) =>
       /\ last.response.status = 200
       /\ last.walk.pages # <<>>
       /\ last.response.page = last.walk.pages[Len(last.walk.pages)]

\* C29 witness: flow f1 holds the row_id 0 for question q1 and then the
\* row_id "0" for question q2; the first page of size 1 gave a next link
\* with the cursor "0", and the request of that link ended in
\* MultipleObjectsReturned with one of the two responses visited
C29_Witness ==
  /\ last.op = "walk" /\ DistinctIds("f1") /\ Len(OfFlow("f1")) = 2
  /\ OfFlow("f1")[1].row.row_id_type = Type_INTEGER /\ OfFlow("f1")[2].row.row_id_type = Type_STRING
  /\ OfFlow("f1")[1].row.row_id_value = <<"0">> /\ OfFlow("f1")[2].row.row_id_value = <<"0">>
  /\ last.n = 2 /\ last.params.size = Present(<<"1">>)
  /\ last.response.status = 500 /\ last.response.raised = "MultipleObjectsReturned"
  /\ Len(last.visited) = 1 /\ Len(Matching("f1", last.params)) = 2

(***************************************************************************)
(* Properties of concurrent submissions.                                   *)
(***************************************************************************)
\* the (question, row_id) pairs of the answers of a validated batch
Pairs(answers) == {<<answers[i].question, answers[i].row_id_type, answers[i].row_id_value>> : i \in 1..Len(answers)}

\* worker w passed validation
Passed(w) == last.worker[w].pc # "received" /\ last.worker[w].answers # <<>>

\* the rows of the table without their ids
RowsOf(stored) == [i \in 1..Len(stored) |-> stored[i].row]

\* C30: when two submissions that each pass validation hold a common
\* (question, row_id) pair and are handled by two workers in any
\* interleaving, at most one of them is stored; the other, once answered,
\* is rejected with "row_id is not unique for flow question" and none of
\* its rows is in the table, which holds what it held before and the rows
\* of the stored submission; and in no state do two stored responses
\* share a (question, row_id) pair.
C30_ConcurrentSubmissions ==
  last.op = "workers" =>
    /\ \A i, j \in 1..Len(responses) :
         i # j => Pairs(<<responses[i].row>>) # Pairs(<<responses[j].row>>)
    /\ (Passed(1) /\ Passed(2) /\ Pairs(last.worker[1].answers) \cap Pairs(last.worker[2].answers) # {}) =>
         /\ ~(last.worker[1].status = 204 /\ last.worker[2].status = 204)
         /\ \A w \in 1..2 :
              /\ last.worker[w].pc = "done" =>
                   \/ last.worker[w].status = 204
                   \/ /\ last.worker[w].status = 400
                      /\ last.worker[w].detail = "row_id is not unique for flow question"
              /\ (last.worker[w].status = 204) =>
                   RowsOf(responses) = RowsOf(last.base) \o last.worker[w].answers
              /\ (last.worker[1].pc = "done" /\ last.worker[2].pc = "done" /\ last.worker[w].status = 204) =>
                   last.worker[3 - w].status = 400
         /\ (last.worker[1].status # 204 /\ last.worker[2].status # 204) => responses = last.base

\* C30 witness: both workers validated a batch before either inserted;
\* the batches differ and share the row_id 0 for q1; the second worker
\* inserted first and its rows are stored, the first worker inserted after
\* it and was rejected, and the table holds none of its other row
C30_Witness ==
  /\ last.op = "workers" /\ last.base = <<>>
  /\ last.worker[1].pc = "done" /\ last.worker[2].pc = "done"
  /\ Len(last.worker[1].answers) = 2 /\ Len(last.worker[2].answers) = 1
  /\ Pairs(last.worker[1].answers) \cap Pairs(last.worker[2].answers) = {<<"q1", Type_INTEGER, <<"0">>>>}
  /\ last.worker[2].status = 204
  /\ last.worker[1].status = 400 /\ last.worker[1].detail = "row_id is not unique for flow question"
  /\ RowsOf(responses) = last.worker[2].answers
====
